---- MODULE Spec2Model ----
(***************************************************************************)
(* Inactivity classification and notification orchestration of the        *)
(* cursor-active-users-bot.                                                *)
(*                                                                         *)
(*  - SpecClassify: the pure classifiers (CursorOperations and the         *)
(*    inactive-users-analyzer module) applied to bounded inputs.           *)
(*  - Spec: one run of the scheduled handler (src/lambda/index.ts,         *)
(*    multi-vendor version) with the Slack dispatcher it drives.           *)
(*  - SpecSlack: one SlackApi instance serving overlapping                 *)
(*    sendInactivityWarningDM calls (user-id cache included).              *)
(*  - SpecReport: one removal report call on each SlackApi version.       *)
(*  - SpecCursorRun: CursorOperations.processInactiveUsers with the DMs    *)
(*    and the channel notification it sends itself.                        *)
(*  - SpecMerge: the handler's merge and de-duplication of any two vendor  *)
(*    results.                                                             *)
(*  - SpecWindow: one call of getUsageDataDateRange.                       *)
(***************************************************************************)
EXTENDS Integers, Sequences, FiniteSets, TLC

(***************************************************************************)
(* Bounds                                                                  *)
(***************************************************************************)
MaxMembers == 2
MaxRecords == 2
MaxCalls == 3
MaxDays == 3
MaxPages == 3

(***************************************************************************)
(* Data                                                                    *)
(***************************************************************************)
\* A usage entry whose email is absent (the field is optional) or empty.
NoEmail == ""

Emails == {"a@x.io", "b@x.io"}

\* { name, email } records of the roster
Users == { [name |-> "Ann", email |-> "a@x.io"],
           [name |-> "Bob", email |-> "b@x.io"] }

\* DailyUsageData, reduced to the two fields the classifier reads
UsageEntries == [email : Emails \cup {NoEmail}, isActive : BOOLEAN]

SeqsUpTo(S, n) == UNION { [1..k -> S] : k \in 0..n }

Range(s) == { s[i] : i \in DOMAIN s }

EmailsOf(us) == { us[i].email : i \in DOMAIN us }

NoResult == [usersToNotify |-> <<>>, usersToRemove |-> <<>>]

(***************************************************************************)
(* CursorOperations.findInactiveUsers / categorizeInactiveUsers            *)
(***************************************************************************)
\* a plausible slip: the isActive flag is not consulted
activeUserEmails_AnyEntry(usageDataEntries) ==
    { usageDataEntries[i].email : i \in DOMAIN usageDataEntries } \ {NoEmail}

RECURSIVE activeUserEmails(_)
activeUserEmails(usageDataEntries) ==
    IF usageDataEntries = <<>> THEN {}
    ELSE LET usageEntry == Head(usageDataEntries)
             rest == activeUserEmails(Tail(usageDataEntries))
         IN IF usageEntry.email # NoEmail /\ usageEntry.isActive
            THEN {usageEntry.email} \cup rest
            ELSE rest

RECURSIVE filterMembers(_, _)
filterMembers(members, active) ==
    IF members = <<>> THEN <<>>
    ELSE LET member == Head(members)
             rest == filterMembers(Tail(members), active)
         IN IF member.email \notin active
            THEN <<[email |-> member.email, name |-> member.name]>> \o rest
            ELSE rest

findInactiveUsers(members, usageDataEntries) ==
    filterMembers(members, activeUserEmails(usageDataEntries))

\* nothing is filtered out of the notify list
filterOutEmails_KeepAll(users, removeEmails) == users

RECURSIVE filterOutEmails(_, _)
filterOutEmails(users, removeEmails) ==
    IF users = <<>> THEN <<>>
    ELSE LET rest == filterOutEmails(Tail(users), removeEmails)
         IN IF Head(users).email \notin removeEmails
            THEN <<Head(users)>> \o rest
            ELSE rest

\* the historical variant that does not filter the notify list
categorizeInactiveUsers_NoFilter(members, notifyPeriodUsage, removePeriodUsage) ==
    [usersToNotify |-> findInactiveUsers(members, notifyPeriodUsage),
     usersToRemove |-> findInactiveUsers(members, removePeriodUsage)]

\* a plausible slip: the two usage windows are swapped
categorizeInactiveUsers_Swapped(members, notifyPeriodUsage, removePeriodUsage) ==
    LET usersToRemove == findInactiveUsers(members, notifyPeriodUsage)
        usersToNotify == findInactiveUsers(members, removePeriodUsage)
    IN [usersToNotify |-> filterOutEmails(usersToNotify, EmailsOf(usersToRemove)),
        usersToRemove |-> usersToRemove]

categorizeInactiveUsers(members, notifyPeriodUsage, removePeriodUsage) ==
    LET usersToRemove == findInactiveUsers(members, removePeriodUsage)
        usersToNotify == findInactiveUsers(members, notifyPeriodUsage)
        removeEmails == EmailsOf(usersToRemove)
        filteredUsersToNotify == filterOutEmails(usersToNotify, removeEmails)
    IN [usersToNotify |-> filteredUsersToNotify,
        usersToRemove |-> usersToRemove]

(***************************************************************************)
(* inactive-users-analyzer.categorizeInactiveUsers: the two lists are      *)
(* computed and then discarded; a fixed result is returned.                *)
(***************************************************************************)
Pekka == [email |-> "pekka.kokkonen@gofore.com", name |-> "Pekka Kokkonen"]

Analyzer_categorizeInactiveUsers(members, notifyPeriodUsage, removePeriodUsage) ==
    LET usersToNotify == findInactiveUsers(members, notifyPeriodUsage)
        usersToRemove == findInactiveUsers(members, removePeriodUsage)
    IN [usersToNotify |-> <<Pekka>>,
        usersToRemove |-> <<Pekka>>]

(***************************************************************************)
(* inactive-users-analyzer.getUsageDataDateRange, in whole days: the start *)
(* is the call's instant moved back daysBack calendar days.                *)
(***************************************************************************)
Analyzer_getUsageDataDateRange(nowDay, daysBack) ==
    [startDateEpochMs |-> nowDay - daysBack, endDateEpochMs |-> nowDay]

(***************************************************************************)
(* GitHubOperations                                                        *)
(***************************************************************************)
\* last_activity_at: <<>> is null, <<d>> is an activity on day d
Null == <<>>

NowDays == {200}
ActivityDays == {100, 125, 170}

\* A Copilot seat: the assignee's login, the assignee's public email (or
\* none), and the last activity.
Seats == { [login |-> "ann", email |-> "a@x.io", last_activity_at |-> a] :
               a \in {Null} \cup { <<d>> : d \in ActivityDays } }
         \cup
         { [login |-> "bob", email |-> NoEmail, last_activity_at |-> a] :
               a \in {Null} \cup { <<d>> : d \in ActivityDays } }

getDateRanges(nowDay, notifyAfterDays, removeAfterDays) ==
    [notifyDateRange |-> Analyzer_getUsageDataDateRange(nowDay, notifyAfterDays),
     removeDateRange |-> Analyzer_getUsageDataDateRange(nowDay, removeAfterDays)]

RECURSIVE GitHub_findInactiveUsers(_, _)
GitHub_findInactiveUsers(seats, cutoffDateEpochMs) ==
    IF seats = <<>> THEN <<>>
    ELSE LET seat == Head(seats)
             rest == GitHub_findInactiveUsers(Tail(seats), cutoffDateEpochMs)
             inactive == IF seat.last_activity_at = Null THEN TRUE
                         ELSE seat.last_activity_at[1] < cutoffDateEpochMs
             user == [email |-> IF seat.email # NoEmail THEN seat.email
                                ELSE seat.login \o "@github.local",
                      name |-> seat.login]
         IN IF inactive THEN <<user>> \o rest ELSE rest

\* the notify list is taken at the removal cutoff as well
GitHub_categorizeInactiveUsers_OneCutoff(seats, dateRanges) ==
    LET usersToRemove ==
            GitHub_findInactiveUsers(seats, dateRanges.removeDateRange.startDateEpochMs)
    IN [usersToNotify |-> usersToRemove, usersToRemove |-> usersToRemove]

GitHub_categorizeInactiveUsers(seats, dateRanges) ==
    LET usersToNotify ==
            GitHub_findInactiveUsers(seats, dateRanges.notifyDateRange.startDateEpochMs)
        usersToRemove ==
            GitHub_findInactiveUsers(seats, dateRanges.removeDateRange.startDateEpochMs)
        removeEmails == EmailsOf(usersToRemove)
        filteredUsersToNotify == filterOutEmails(usersToNotify, removeEmails)
    IN [usersToNotify |-> filteredUsersToNotify,
        usersToRemove |-> usersToRemove]

\* GitHubOperations.processInactiveUsers once the seats are fetched
GitHub_processInactiveUsers(seats, nowDay, notifyAfterDays, removeAfterDays) ==
    LET dateRanges == getDateRanges(nowDay, notifyAfterDays, removeAfterDays)
    IN IF Len(seats) = 0
       THEN [members |-> 0, usersToNotify |-> <<>>, usersToRemove |-> <<>>]
       ELSE LET c == GitHub_categorizeInactiveUsers(seats, dateRanges)
            IN [members |-> Len(seats),
                usersToNotify |-> c.usersToNotify,
                usersToRemove |-> c.usersToRemove]

\* CursorOperations.processInactiveUsers once the members and the two usage
\* windows are fetched
Cursor_processInactiveUsers(teamMembers, notifyUsageData, removeUsageData) ==
    IF Len(teamMembers) = 0
    THEN [members |-> 0, usersToNotify |-> <<>>, usersToRemove |-> <<>>]
    ELSE LET c == categorizeInactiveUsers(teamMembers, notifyUsageData, removeUsageData)
         IN [members |-> Len(teamMembers),
             usersToNotify |-> c.usersToNotify,
             usersToRemove |-> c.usersToRemove]

(***************************************************************************)
(* handler: Array.from(new Map(users.map(u => [u.email, u])).values())     *)
(* A Map keeps a key at the position of its first insertion and the value  *)
(* of its last.                                                            *)
(***************************************************************************)
MapSet(m, u) ==
    IF \E i \in DOMAIN m : m[i].email = u.email
    THEN [i \in DOMAIN m |-> IF m[i].email = u.email THEN u ELSE m[i]]
    ELSE Append(m, u)

RECURSIVE MapFrom(_, _)
MapFrom(m, users) ==
    IF users = <<>> THEN m
    ELSE MapFrom(MapSet(m, Head(users)), Tail(users))

uniqueByEmail(users) == MapFrom(<<>>, users)

(***************************************************************************)
(* SlackApi.sendInactivityWarningDM (the caching dispatcher)               *)
(***************************************************************************)
\* the id the chat directory holds for an email
SlackIdOf(email) == "U:" \o email

LookupOutcomes == {"ok", "noid", "error"}
PostOutcomes == {"ok", "error"}

CacheHas(cache, email) == \E p \in cache : p[1] = email
CacheGet(cache, email) == (CHOOSE p \in cache : p[1] = email)[2]
\* one slot for the handle: storing an id overwrites every email's entry
CacheSet_OneSlot(cache, email, id) == { <<p[1], id>> : p \in cache } \cup {<<email, id>>}

CacheSet(cache, email, id) == { p \in cache : p[1] # email } \cup {<<email, id>>}

\* the switch is not consulted
dmStart_IgnoreSwitch(isEnabled, cache, userEmail) ==
    IF CacheHas(cache, userEmail)
    THEN [email |-> userEmail, st |-> "post", result |-> "pending",
          lookup |-> "cached", post |-> "none",
          userId |-> CacheGet(cache, userEmail)]
    ELSE [email |-> userEmail, st |-> "lookup", result |-> "pending",
          lookup |-> "none", post |-> "none", userId |-> ""]

\* the cache is not consulted: every enabled call looks the email up
dmStart_NoCache(isEnabled, cache, userEmail) ==
    IF ~isEnabled
    THEN [email |-> userEmail, st |-> "done", result |-> "false",
          lookup |-> "none", post |-> "none", userId |-> ""]
    ELSE [email |-> userEmail, st |-> "lookup", result |-> "pending",
          lookup |-> "none", post |-> "none", userId |-> ""]

\* the call up to its first suspension
dmStart(isEnabled, cache, userEmail) ==
    IF ~isEnabled
    THEN [email |-> userEmail, st |-> "done", result |-> "false",
          lookup |-> "none", post |-> "none", userId |-> ""]
    ELSE IF CacheHas(cache, userEmail)
         THEN [email |-> userEmail, st |-> "post", result |-> "pending",
               lookup |-> "cached", post |-> "none",
               userId |-> CacheGet(cache, userEmail)]
         ELSE [email |-> userEmail, st |-> "lookup", result |-> "pending",
               lookup |-> "none", post |-> "none", userId |-> ""]

\* a plausible slip: a rejected lookup escapes the call
dmAfterLookup_Rethrow(task, outcome) ==
    CASE outcome = "error" ->
            [task EXCEPT !.st = "done", !.result = "rejected", !.lookup = "error"]
      [] outcome = "noid" ->
            [task EXCEPT !.st = "done", !.result = "false", !.lookup = "noid"]
      [] OTHER ->
            [task EXCEPT !.st = "post", !.lookup = "ok", !.userId = SlackIdOf(task.email)]

\* the lookup's answer arrives: rejected (caught, false), no user id (false),
\* or an id (cached by the caller of this operator, then the post is issued)
dmAfterLookup(task, outcome) ==
    CASE outcome = "error" ->
            [task EXCEPT !.st = "done", !.result = "false", !.lookup = "error"]
      [] outcome = "noid" ->
            [task EXCEPT !.st = "done", !.result = "false", !.lookup = "noid"]
      [] OTHER ->
            [task EXCEPT !.st = "post", !.lookup = "ok", !.userId = SlackIdOf(task.email)]

\* the post's answer arrives: rejected (caught, false) or accepted (true)
dmAfterPost(task, outcome) ==
    IF outcome = "ok"
    THEN [task EXCEPT !.st = "done", !.result = "true", !.post = "ok"]
    ELSE [task EXCEPT !.st = "done", !.result = "false", !.post = "error"]

(***************************************************************************)
(* The removal report: SlackApi.sendRemovalCandidatesNotification          *)
(* (services/slack-api.ts and apis/slack-api.ts) and                       *)
(* SlackApi.sendChannelNotification (the caching SlackApi)                 *)
(***************************************************************************)
NoRecipient == ""

Recipients == {NoRecipient, "U:admin"}

\* what users.lookupByEmail answers for each email during one call
LookupAnswers == [Emails -> LookupOutcomes]

SlackRealNameOf(email) == "R:" \o email

NoReport == [lookups |-> <<>>, posts |-> <<>>]

\* a failed lookup loses the identity's line
messageLines_DropFailed(users, lookup) ==
    LET kept == SelectSeq(users, LAMBDA u : lookup[u.email] # "error")
    IN [i \in DOMAIN kept |->
          IF lookup[kept[i].email] = "ok"
          THEN [username |-> SlackRealNameOf(kept[i].email), email |-> kept[i].email,
                mention |-> SlackIdOf(kept[i].email)]
          ELSE [username |-> kept[i].name, email |-> kept[i].email, mention |-> ""]]

\* Promise.all over usersToRemove.map: one line per user, in input order; the
\* Slack profile's name and the mention when the lookup gave a user, the
\* input's name and email when it gave none or was rejected (caught)
messageLines(users, lookup) ==
    [i \in DOMAIN users |->
       IF lookup[users[i].email] = "ok"
       THEN [username |-> SlackRealNameOf(users[i].email), email |-> users[i].email,
             mention |-> SlackIdOf(users[i].email)]
       ELSE [username |-> users[i].name, email |-> users[i].email, mention |-> ""]]

emailsInOrder(users) == [i \in DOMAIN users |-> users[i].email]

\* services/slack-api.ts: no switch, no recipient check; a rejected post is
\* logged and rethrown
Services_sendRemovalCandidatesNotification(recipientUserId, usersToRemove, lookup, post) ==
    IF usersToRemove = <<>>
    THEN NoReport @@ [result |-> "void"]
    ELSE [lookups |-> emailsInOrder(usersToRemove),
          posts |-> << [channel |-> recipientUserId,
                        lines |-> messageLines(usersToRemove, lookup)] >>,
          result |-> IF post = "ok" THEN "void" ELSE "rejected"]

\* apis/slack-api.ts: the switch, the recipient check and the empty check
\* return false; a rejected post is logged and false is returned
Apis_sendRemovalCandidatesNotification(isEnabled, recipientUserId, usersToRemove, lookup, post) ==
    IF ~isEnabled \/ recipientUserId = NoRecipient \/ usersToRemove = <<>>
    THEN NoReport @@ [result |-> "false"]
    ELSE [lookups |-> emailsInOrder(usersToRemove),
          posts |-> << [channel |-> recipientUserId,
                        lines |-> messageLines(usersToRemove, lookup)] >>,
          result |-> IF post = "ok" THEN "true" ELSE "false"]

\* the answer's id is stored without the check that there is one
RECURSIVE channelLookups_NoIdCheck(_, _, _, _)
channelLookups_NoIdCheck(isEnabled, cache, users, lookup) ==
    IF users = <<>> THEN [cache |-> cache, lookups |-> <<>>]
    ELSE LET user == Head(users)
         IN IF ~CacheHas(cache, user.email) /\ isEnabled
            THEN LET cache1 == IF lookup[user.email] = "ok"
                               THEN CacheSet(cache, user.email, SlackIdOf(user.email))
                               ELSE IF lookup[user.email] = "noid"
                               THEN CacheSet(cache, user.email, "")
                               ELSE cache
                     rest == channelLookups_NoIdCheck(isEnabled, cache1, Tail(users), lookup)
                 IN [cache |-> rest.cache, lookups |-> <<user.email>> \o rest.lookups]
            ELSE channelLookups_NoIdCheck(isEnabled, cache, Tail(users), lookup)

\* the lookup loop of sendChannelNotification: sequential, cache first; an id
\* is cached, a missing id or a rejected lookup is logged
RECURSIVE channelLookups(_, _, _, _)
channelLookups(isEnabled, cache, users, lookup) ==
    IF users = <<>> THEN [cache |-> cache, lookups |-> <<>>]
    ELSE LET user == Head(users)
         IN IF ~CacheHas(cache, user.email) /\ isEnabled
            THEN LET cache1 == IF lookup[user.email] = "ok"
                               THEN CacheSet(cache, user.email, SlackIdOf(user.email))
                               ELSE cache
                     rest == channelLookups(isEnabled, cache1, Tail(users), lookup)
                 IN [cache |-> rest.cache, lookups |-> <<user.email>> \o rest.lookups]
            ELSE channelLookups(isEnabled, cache, Tail(users), lookup)

\* one line per user of a tier, the mention when the cache holds the user's id
channelLines(tier, users, cache) ==
    [i \in DOMAIN users |->
       [tier |-> tier, username |-> users[i].name, email |-> users[i].email,
        mention |-> IF CacheHas(cache, users[i].email)
                    THEN CacheGet(cache, users[i].email) ELSE ""]]

\* the caching SlackApi: recipient check, lookups, message, then the post (none
\* when the instance is disabled); a rejected post is logged, false returned
sendChannelNotification(isEnabled, cache, recipientUserId, usersToNotify, usersToRemove, lookup, post) ==
    IF recipientUserId = NoRecipient
    THEN NoReport @@ [result |-> "false", cache |-> cache]
    ELSE LET looked == channelLookups(isEnabled, cache, usersToNotify \o usersToRemove,
                                      lookup)
             lines == channelLines("warning", usersToNotify, looked.cache)
                        \o channelLines("x", usersToRemove, looked.cache)
         IN IF ~isEnabled
            THEN [lookups |-> looked.lookups, posts |-> <<>>, result |-> "false",
                  cache |-> looked.cache]
            ELSE [lookups |-> looked.lookups,
                  posts |-> << [channel |-> recipientUserId, lines |-> lines] >>,
                  result |-> IF post = "ok" THEN "true" ELSE "false",
                  cache |-> looked.cache]

(***************************************************************************)
(* getUsageDataDateRange in epoch milliseconds (utils/dates.ts and the     *)
(* validating version kept in utils/secrets.ts).  daysBack is carried as   *)
(* twice its value, so that x.5 is an argument too.                        *)
(***************************************************************************)
MsPerDay == 24 * 60 * 60 * 1000

MsPerHour == 60 * 60 * 1000

IsInteger(twiceDaysBack) == twiceDaysBack % 2 = 0

\* ToIntegerOrInfinity of a number given as twice its value: truncation
TruncateTwice(twice) == IF twice >= 0 THEN twice \div 2 ELSE -((-twice) \div 2)

\* the inputs of a call: the argument, the clock at the first new Date(), the
\* milliseconds that pass before the second one, the local day of the month,
\* and by how much the local UTC offset at the target date differs from
\* today's (0 when the process runs in UTC)
WindowCalls ==
    [fn : {"getUsageDataDateRange"},
     twiceDaysBack : (-2)..(2 * MaxDays),
     nowMs : {1000000000, 1000000001},
     tickMs : {0, 1},
     dateOfMonth : {1, 15},
     offsetChangeMs : {-MsPerHour, 0, MsPerHour}]

\* utils/dates.ts: setDate on the local calendar, then a second clock read
Dates_getUsageDataDateRange(c) ==
    LET daysMoved == c.dateOfMonth
                       - TruncateTwice(2 * c.dateOfMonth - c.twiceDaysBack)
        offsetMoved == IF daysMoved = 0 THEN 0 ELSE c.offsetChangeMs
    IN [threw |-> FALSE,
        startDateEpochMs |-> c.nowMs - daysMoved * MsPerDay - offsetMoved,
        endDateEpochMs |-> c.nowMs + c.tickMs]

\* utils/secrets.ts: the argument is validated, one clock read, ms arithmetic
Secrets_getUsageDataDateRange(c) ==
    IF c.twiceDaysBack < 0 \/ ~IsInteger(c.twiceDaysBack)
    THEN [threw |-> TRUE, startDateEpochMs |-> 0, endDateEpochMs |-> 0]
    ELSE [threw |-> FALSE,
          startDateEpochMs |-> c.nowMs - (c.twiceDaysBack \div 2) * MsPerDay,
          endDateEpochMs |-> c.nowMs]

(***************************************************************************)
(* Configuration defaults of the handler                                   *)
(***************************************************************************)
NOTIFY_AFTER_DAYS == 60
REMOVE_AFTER_DAYS == 90

Vendors == {"cursor", "github"}

\* what makes a vendor's block throw inside its try
CursorFailures == {"missing CURSOR_API_KEY", "fetchTeamMembers", "fetchDailyUsageData"}
GitHubFailures == {"missing GITHUB_ORG", "missing GITHUB_TOKEN", "fetchAllCopilotSeats"}

NoVendorResult == [members |-> 0, usersToNotify |-> <<>>, usersToRemove |-> <<>>]

\* rosters of the run: distinct members / distinct assignees
Distinct(s) == \A i, j \in DOMAIN s : i # j => s[i] # s[j]
Rosters == { r \in SeqsUpTo(Users, MaxMembers) : Distinct(r) }
SeatLists == { r \in SeqsUpTo(Seats, MaxMembers) :
                  \A i, j \in DOMAIN r : i # j => r[i].login # r[j].login }

(***************************************************************************)
(* State                                                                   *)
(***************************************************************************)
VARIABLES
    \* classifier harness
    cpc,                 \* "idle" | "input" | "done"
    members,             \* roster handed to the classifier
    notifyPeriodUsage,   \* usage entries of the notify window
    removePeriodUsage,   \* usage entries of the remove window
    result,              \* CursorOperations.categorizeInactiveUsers(...)
    analyzerResult,      \* inactive-users-analyzer categorizeInactiveUsers(...)
    \* one run of the handler
    pc,                  \* where the handler is
    summary,             \* how the run ended
    secretsOk,           \* whether SECRETS_ARN is set and fetchSecrets resolves
    ENABLE_CURSOR,
    ENABLE_GITHUB_COPILOT,
    now,                 \* the day of the run
    vendorStatus,        \* per vendor: pending | disabled | failed | ok
    vendorResult,        \* per vendor: what processInactiveUsers returned
    allUsersToNotify,
    allUsersToRemove,
    totalMembers,
    uniqueUsersToNotify,
    uniqueUsersToRemove,
    dmSuccessCount,
    dmFailureCount,
    reportCalls,         \* calls of sendRemovalCandidatesNotification
    reportStatus,        \* none | sent | failed
    \* the SlackApi instance of the run
    enabled,
    userIdCache,         \* set of <<email, user id>>
    dm,                  \* the sendInactivityWarningDM calls, in call order
    dmPosted,            \* direct messages accepted by the chat API: <<channel, email>>
    \* one invocation of a function studied on its own
    call,                \* the function and its arguments
    ret                  \* what it returned and did

cvars == <<cpc, members, notifyPeriodUsage, removePeriodUsage, result, analyzerResult>>

hvars == <<pc, summary, secretsOk, ENABLE_CURSOR, ENABLE_GITHUB_COPILOT, now,
           vendorStatus, vendorResult, allUsersToNotify, allUsersToRemove,
           totalMembers, uniqueUsersToNotify, uniqueUsersToRemove,
           dmSuccessCount, dmFailureCount, reportCalls, reportStatus>>

svars == <<enabled, userIdCache, dm, dmPosted>>

pvars == <<call, ret>>

vars == <<cvars, hvars, svars, pvars>>

NoCall == [fn |-> "none"]

NoRet == [fn |-> "none"]

CallIdle ==
    /\ call = NoCall
    /\ ret = NoRet

HandlerIdle ==
    /\ pc = "idle"
    /\ summary = "none"
    /\ secretsOk = TRUE
    /\ ENABLE_CURSOR = TRUE
    /\ ENABLE_GITHUB_COPILOT = FALSE
    /\ now = 200
    /\ vendorStatus = [v \in Vendors |-> "pending"]
    /\ vendorResult = [v \in Vendors |-> NoVendorResult]
    /\ allUsersToNotify = <<>>
    /\ allUsersToRemove = <<>>
    /\ totalMembers = 0
    /\ uniqueUsersToNotify = <<>>
    /\ uniqueUsersToRemove = <<>>
    /\ dmSuccessCount = 0
    /\ dmFailureCount = 0
    /\ reportCalls = 0
    /\ reportStatus = "none"

SlackIdle ==
    /\ userIdCache = {}
    /\ dm = <<>>
    /\ dmPosted = {}

ClassifyIdle ==
    /\ cpc = "idle"
    /\ members = <<>>
    /\ notifyPeriodUsage = <<>>
    /\ removePeriodUsage = <<>>
    /\ result = NoResult
    /\ analyzerResult = NoResult

(***************************************************************************)
(* SpecClassify                                                            *)
(***************************************************************************)
InitClassify ==
    /\ cpc = "input"
    /\ members \in SeqsUpTo(Users, MaxMembers)
    /\ notifyPeriodUsage \in SeqsUpTo(UsageEntries, MaxRecords)
    /\ removePeriodUsage \in SeqsUpTo(UsageEntries, MaxRecords)
    /\ result = NoResult
    /\ analyzerResult = NoResult
    /\ HandlerIdle
    /\ enabled = TRUE
    /\ SlackIdle
    /\ CallIdle

Categorize ==
    /\ cpc = "input"
    /\ cpc' = "done"
    /\ result' = categorizeInactiveUsers(members, notifyPeriodUsage, removePeriodUsage)
    /\ analyzerResult' =
           Analyzer_categorizeInactiveUsers(members, notifyPeriodUsage, removePeriodUsage)
    /\ UNCHANGED <<members, notifyPeriodUsage, removePeriodUsage, hvars, svars, pvars>>

NextClassify == Categorize

SpecClassify == InitClassify /\ [][NextClassify]_vars

(***************************************************************************)
(* SpecSlack: one SlackApi instance serving sendInactivityWarningDM calls, *)
(* which may overlap (each call suspends at its lookup and at its post)    *)
(***************************************************************************)
InitSlack ==
    /\ ClassifyIdle
    /\ HandlerIdle
    /\ enabled \in BOOLEAN
    /\ SlackIdle
    /\ CallIdle

\* a caller invokes sendInactivityWarningDM(userEmail, ...)
SendInactivityWarningDM(userEmail) ==
    /\ Len(dm) < MaxCalls
    /\ dm' = Append(dm, dmStart(enabled, userIdCache, userEmail))
    /\ UNCHANGED <<pvars, cvars, hvars, enabled, userIdCache, dmPosted>>

(***************************************************************************)
(* SpecReport: one removal report call, on each SlackApi version           *)
(***************************************************************************)
\* the caches a SlackApi instance can hold: ids its earlier lookups returned
Caches == SUBSET { <<e, SlackIdOf(e)>> : e \in Emails }

InitReport ==
    /\ ClassifyIdle
    /\ HandlerIdle
    /\ enabled \in BOOLEAN
    /\ userIdCache \in Caches
    /\ dm = <<>>
    /\ dmPosted = {}
    /\ call \in [fn : {"sendRemovalReport"}, recipientUserId : Recipients,
                  usersToNotify : Rosters, usersToRemove : Rosters,
                  lookup : LookupAnswers, post : PostOutcomes]
    /\ ret = NoRet

SendRemovalReport ==
    /\ call.fn = "sendRemovalReport"
    /\ ret = NoRet
    /\ LET channel == sendChannelNotification(enabled, userIdCache, call.recipientUserId,
                                              call.usersToNotify, call.usersToRemove,
                                              call.lookup, call.post)
       IN /\ ret' = [fn |-> "sendRemovalReport",
                     cacheAtCall |-> userIdCache,
                     services |-> Services_sendRemovalCandidatesNotification(
                                      call.recipientUserId, call.usersToRemove,
                                      call.lookup, call.post),
                     apis |-> Apis_sendRemovalCandidatesNotification(
                                      enabled, call.recipientUserId, call.usersToRemove,
                                      call.lookup, call.post),
                     channel |-> channel]
          /\ userIdCache' = channel.cache
    /\ UNCHANGED <<call, cvars, hvars, enabled, dm, dmPosted>>

NextReport == SendRemovalReport

SpecReport == InitReport /\ [][NextReport]_vars

(***************************************************************************)
(* SpecCursorRun: CursorOperations.processInactiveUsers with the Slack     *)
(* sends it makes itself: one awaited DM after the other, then the channel *)
(* notification when there is a removal candidate                          *)
(***************************************************************************)
InitCursorRun ==
    /\ ClassifyIdle
    /\ HandlerIdle
    /\ enabled \in BOOLEAN
    /\ SlackIdle
    /\ call \in [fn : {"processInactiveUsers"}, st : {"fetch"},
                  notificationRecipient : Recipients, members : {0},
                  usersToNotify : {<<>>}, usersToRemove : {<<>>}]
    /\ ret = NoRet

\* fetchTeamMembers / fetchDailyUsageData reject: the call rejects
CursorRunFetchFails ==
    /\ call.fn = "processInactiveUsers"
    /\ call.st = "fetch"
    /\ call' = [call EXCEPT !.st = "rejected"]
    /\ UNCHANGED <<ret, cvars, hvars, svars>>

\* members and usage fetched and categorized; an empty roster returns at once
CursorRunFetch ==
    /\ call.fn = "processInactiveUsers"
    /\ call.st = "fetch"
    /\ \E teamMembers \in Rosters,
          notifyUsageData \in SeqsUpTo(UsageEntries, MaxRecords),
          removeUsageData \in SeqsUpTo(UsageEntries, MaxRecords) :
         LET r == Cursor_processInactiveUsers(teamMembers, notifyUsageData,
                                              removeUsageData)
         IN /\ call' = [call EXCEPT !.st = IF r.members = 0 THEN "returned" ELSE "dm",
                                    !.members = r.members,
                                    !.usersToNotify = r.usersToNotify,
                                    !.usersToRemove = r.usersToRemove]
            /\ ret' = IF r.members = 0
                      THEN [fn |-> "processInactiveUsers", report |-> <<>>,
                            apisReport |-> <<>>]
                      ELSE ret
    /\ UNCHANGED <<cvars, hvars, svars>>

\* for (const user of usersToNotify) await sendInactivityWarningDM(...)
CursorRunNextDM ==
    /\ call.fn = "processInactiveUsers"
    /\ call.st = "dm"
    /\ \A i \in DOMAIN dm : dm[i].st = "done"
    /\ Len(dm) < Len(call.usersToNotify)
    /\ dm' = Append(dm, dmStart(enabled, userIdCache,
                                call.usersToNotify[Len(dm) + 1].email))
    /\ UNCHANGED <<pvars, cvars, hvars, enabled, userIdCache, dmPosted>>

\* if (usersToRemove.length > 0) await sendChannelNotification(...); return
CursorRunReport ==
    /\ call.fn = "processInactiveUsers"
    /\ call.st = "dm"
    /\ \A i \in DOMAIN dm : dm[i].st = "done"
    /\ Len(dm) = Len(call.usersToNotify)
    /\ Len(call.usersToRemove) > 0
    /\ \E lookup \in LookupAnswers, post \in PostOutcomes :
         LET channel == sendChannelNotification(enabled, userIdCache,
                            call.notificationRecipient, call.usersToNotify,
                            call.usersToRemove, lookup, post)
         IN /\ ret' = [fn |-> "processInactiveUsers", report |-> <<channel>>,
                       apisReport |-> << Apis_sendRemovalCandidatesNotification(
                                            enabled, call.notificationRecipient,
                                            call.usersToRemove, lookup, post) >>]
            /\ userIdCache' = channel.cache
    /\ call' = [call EXCEPT !.st = "returned"]
    /\ UNCHANGED <<cvars, hvars, enabled, dm, dmPosted>>

CursorRunNoReport ==
    /\ call.fn = "processInactiveUsers"
    /\ call.st = "dm"
    /\ \A i \in DOMAIN dm : dm[i].st = "done"
    /\ Len(dm) = Len(call.usersToNotify)
    /\ Len(call.usersToRemove) = 0
    /\ ret' = [fn |-> "processInactiveUsers", report |-> <<>>, apisReport |-> <<>>]
    /\ call' = [call EXCEPT !.st = "returned"]
    /\ UNCHANGED <<cvars, hvars, svars>>

(***************************************************************************)
(* Spec: one run of the handler                                            *)
(***************************************************************************)
Init ==
    /\ ClassifyIdle
    /\ CallIdle
    /\ pc = "fetchSecrets"
    /\ summary = "none"
    /\ secretsOk \in BOOLEAN
    /\ ENABLE_CURSOR \in BOOLEAN
    /\ ENABLE_GITHUB_COPILOT \in BOOLEAN
    /\ now \in NowDays
    /\ vendorStatus = [v \in Vendors |-> "pending"]
    /\ vendorResult = [v \in Vendors |-> NoVendorResult]
    /\ allUsersToNotify = <<>>
    /\ allUsersToRemove = <<>>
    /\ totalMembers = 0
    /\ uniqueUsersToNotify = <<>>
    /\ uniqueUsersToRemove = <<>>
    /\ dmSuccessCount = 0
    /\ dmFailureCount = 0
    /\ reportCalls = 0
    /\ reportStatus = "none"
    /\ enabled \in BOOLEAN
    /\ userIdCache = {}
    /\ dm = <<>>
    /\ dmPosted = {}

\* 1. fetch secrets; a failure is rethrown by the outer catch
FetchSecrets ==
    /\ pc = "fetchSecrets"
    /\ IF secretsOk
       THEN pc' = "cursor" /\ summary' = summary
       ELSE pc' = "done" /\ summary' = "rejected"
    /\ UNCHANGED <<secretsOk, ENABLE_CURSOR, ENABLE_GITHUB_COPILOT, now,
                   vendorStatus, vendorResult, allUsersToNotify, allUsersToRemove,
                   totalMembers, uniqueUsersToNotify, uniqueUsersToRemove,
                   dmSuccessCount, dmFailureCount, reportCalls, reportStatus>>
    /\ UNCHANGED <<pvars, cvars, svars>>

\* what the catch of a vendor's block does with the error
vendorCatch_Rethrow(v, nextPc) ==
    /\ pc' = "done"
    /\ summary' = "rejected"
    /\ vendorStatus' = [vendorStatus EXCEPT ![v] = "failed"]

vendorCatch(v, nextPc) ==
    /\ pc' = nextPc
    /\ summary' = summary
    /\ vendorStatus' = [vendorStatus EXCEPT ![v] = "failed"]

\* a vendor's block completes: its members are counted, its lists pushed
vendorPush(v, nextPc, res) ==
    /\ pc' = nextPc
    /\ summary' = summary
    /\ vendorStatus' = [vendorStatus EXCEPT ![v] = "ok"]
    /\ vendorResult' = [vendorResult EXCEPT ![v] = res]
    /\ totalMembers' = totalMembers + res.members
    /\ allUsersToNotify' = allUsersToNotify \o res.usersToNotify
    /\ allUsersToRemove' = allUsersToRemove \o res.usersToRemove

vendorFrame ==
    UNCHANGED <<secretsOk, ENABLE_CURSOR, ENABLE_GITHUB_COPILOT, now,
                uniqueUsersToNotify, uniqueUsersToRemove,
                dmSuccessCount, dmFailureCount, reportCalls, reportStatus,
                pvars, cvars, svars>>

CursorDisabled ==
    /\ pc = "cursor"
    /\ ~ENABLE_CURSOR
    /\ pc' = "github"
    /\ vendorStatus' = [vendorStatus EXCEPT !["cursor"] = "disabled"]
    /\ UNCHANGED <<summary, vendorResult, totalMembers, allUsersToNotify, allUsersToRemove>>
    /\ vendorFrame

CursorFails ==
    /\ pc = "cursor"
    /\ ENABLE_CURSOR
    /\ \E why \in CursorFailures : vendorCatch("cursor", "github")
    /\ UNCHANGED <<vendorResult, totalMembers, allUsersToNotify, allUsersToRemove>>
    /\ vendorFrame

CursorProcessed ==
    /\ pc = "cursor"
    /\ ENABLE_CURSOR
    /\ \E teamMembers \in Rosters,
          notifyUsageData \in SeqsUpTo(UsageEntries, MaxRecords),
          removeUsageData \in SeqsUpTo(UsageEntries, MaxRecords) :
            vendorPush("cursor", "github",
                       Cursor_processInactiveUsers(teamMembers, notifyUsageData,
                                                   removeUsageData))
    /\ vendorFrame

GitHubDisabled ==
    /\ pc = "github"
    /\ ~ENABLE_GITHUB_COPILOT
    /\ pc' = "check"
    /\ vendorStatus' = [vendorStatus EXCEPT !["github"] = "disabled"]
    /\ UNCHANGED <<summary, vendorResult, totalMembers, allUsersToNotify, allUsersToRemove>>
    /\ vendorFrame

GitHubFails ==
    /\ pc = "github"
    /\ ENABLE_GITHUB_COPILOT
    /\ \E why \in GitHubFailures : vendorCatch("github", "check")
    /\ UNCHANGED <<vendorResult, totalMembers, allUsersToNotify, allUsersToRemove>>
    /\ vendorFrame

GitHubProcessed ==
    /\ pc = "github"
    /\ ENABLE_GITHUB_COPILOT
    /\ \E seats \in SeatLists :
            vendorPush("github", "check",
                       GitHub_processInactiveUsers(seats, now, NOTIFY_AFTER_DAYS,
                                                   REMOVE_AFTER_DAYS))
    /\ vendorFrame

\* the early returns after the vendor blocks
NoServicesEnabled ==
    /\ pc = "check"
    /\ ~ENABLE_CURSOR /\ ~ENABLE_GITHUB_COPILOT
    /\ pc' = "done"
    /\ summary' = "noServices"
    /\ UNCHANGED <<secretsOk, ENABLE_CURSOR, ENABLE_GITHUB_COPILOT, now,
                   vendorStatus, vendorResult, allUsersToNotify, allUsersToRemove,
                   totalMembers, uniqueUsersToNotify, uniqueUsersToRemove,
                   dmSuccessCount, dmFailureCount, reportCalls, reportStatus>>
    /\ UNCHANGED <<pvars, cvars, svars>>

\* the second early return is missing
noMembersFound_Never(total) == FALSE

\* if (totalMembers === 0) return
noMembersFound(total) == total = 0

NoMembers ==
    /\ pc = "check"
    /\ ENABLE_CURSOR \/ ENABLE_GITHUB_COPILOT
    /\ noMembersFound(totalMembers)
    /\ pc' = "done"
    /\ summary' = "noMembers"
    /\ UNCHANGED <<secretsOk, ENABLE_CURSOR, ENABLE_GITHUB_COPILOT, now,
                   vendorStatus, vendorResult, allUsersToNotify, allUsersToRemove,
                   totalMembers, uniqueUsersToNotify, uniqueUsersToRemove,
                   dmSuccessCount, dmFailureCount, reportCalls, reportStatus>>
    /\ UNCHANGED <<pvars, cvars, svars>>

\* the list of identities that get a warning DM: de-duplicated by email,
\* the removal candidates are not subtracted from it
mergedToNotify(toNotify, toRemove) == uniqueByEmail(toNotify)

\* the removal candidates are concatenated, not de-duplicated
mergedToRemove_NoDedup(toRemove) == toRemove

mergedToRemove(toRemove) == uniqueByEmail(toRemove)

\* every sendInactivityWarningDM call of the map, each run to its first await
RECURSIVE dmStartAll(_, _, _)
dmStartAll(isEnabled, cache, users) ==
    IF users = <<>> THEN <<>>
    ELSE <<dmStart(isEnabled, cache, Head(users).email)>>
             \o dmStartAll(isEnabled, cache, Tail(users))

\* de-duplicate, then issue every warning DM (Promise.allSettled over the map)
Dispatch ==
    /\ pc = "check"
    /\ ENABLE_CURSOR \/ ENABLE_GITHUB_COPILOT
    /\ ~noMembersFound(totalMembers)
    /\ uniqueUsersToNotify' = mergedToNotify(allUsersToNotify, allUsersToRemove)
    /\ uniqueUsersToRemove' = mergedToRemove(allUsersToRemove)
    /\ dm' = dmStartAll(enabled, userIdCache, uniqueUsersToNotify')
    /\ pc' = "awaitDMs"
    /\ UNCHANGED <<summary, secretsOk, ENABLE_CURSOR, ENABLE_GITHUB_COPILOT, now,
                   vendorStatus, vendorResult, allUsersToNotify, allUsersToRemove,
                   totalMembers, dmSuccessCount, dmFailureCount, reportCalls,
                   reportStatus>>
    /\ UNCHANGED <<pvars, cvars, enabled, userIdCache, dmPosted>>

\* users.lookupByEmail answers call i
DMLookupReturns(i) ==
    /\ i \in DOMAIN dm
    /\ dm[i].st = "lookup"
    /\ \E outcome \in LookupOutcomes :
         LET t == dmAfterLookup(dm[i], outcome)
         IN /\ dm' = [dm EXCEPT ![i] = t]
            /\ userIdCache' = IF outcome = "ok"
                              THEN CacheSet(userIdCache, t.email, t.userId)
                              ELSE userIdCache
    /\ UNCHANGED <<pvars, cvars, hvars, enabled, dmPosted>>

\* chat.postMessage answers call i
DMPostReturns(i) ==
    /\ i \in DOMAIN dm
    /\ dm[i].st = "post"
    /\ \E outcome \in PostOutcomes :
         /\ dm' = [dm EXCEPT ![i] = dmAfterPost(dm[i], outcome)]
         /\ dmPosted' = IF outcome = "ok"
                        THEN dmPosted \cup {<<dm[i].userId, dm[i].email>>}
                        ELSE dmPosted
    /\ UNCHANGED <<pvars, cvars, hvars, enabled, userIdCache>>

\* the handler goes on without awaiting the DM calls
AllSettled_NoWait == TRUE

AllSettled == \A i \in DOMAIN dm : dm[i].st = "done"

Fulfilled(v) == { i \in DOMAIN dm : dm[i].result = v }

\* the tally over the settled results
dmTally_CountSettled(tasks) ==
    [success |-> Cardinality({ i \in DOMAIN tasks : tasks[i].result # "rejected" }),
     failure |-> Cardinality({ i \in DOMAIN tasks : tasks[i].result = "rejected" })]

dmTally(tasks) ==
    LET ok == Cardinality({ i \in DOMAIN tasks : tasks[i].result = "true" })
    IN [success |-> ok, failure |-> Len(tasks) - ok]

\* Promise.allSettled resolves: the counters are set (they stay 0 when the
\* merged notify list is empty)
Tally ==
    /\ pc = "awaitDMs"
    /\ AllSettled
    /\ IF Len(uniqueUsersToNotify) > 0
       THEN /\ dmSuccessCount' = dmTally(dm).success
            /\ dmFailureCount' = dmTally(dm).failure
       ELSE UNCHANGED <<dmSuccessCount, dmFailureCount>>
    /\ pc' = "report"
    /\ UNCHANGED <<summary, secretsOk, ENABLE_CURSOR, ENABLE_GITHUB_COPILOT, now,
                   vendorStatus, vendorResult, allUsersToNotify, allUsersToRemove,
                   totalMembers, uniqueUsersToNotify, uniqueUsersToRemove,
                   reportCalls, reportStatus>>
    /\ UNCHANGED <<pvars, cvars, svars>>

\* whether the handler calls sendRemovalCandidatesNotification
reportWanted_Always(toRemove) == TRUE

reportWanted(toRemove) == Len(toRemove) > 0

\* how the run ends when the report call rethrew instead of being caught
reportCatch_Rethrow(outcome) == IF outcome = "ok" THEN "completed" ELSE "rejected"

\* the try/catch around the report call: a failed send is logged and the
\* handler goes on to its final summary
reportCatch(outcome) == "completed"

\* 5. the removal report: one call, its failure caught and logged
ReportSend ==
    /\ pc = "report"
    /\ reportWanted(uniqueUsersToRemove)
    /\ reportCalls' = reportCalls + 1
    /\ \E outcome \in PostOutcomes :
         /\ reportStatus' = IF outcome = "ok" THEN "sent" ELSE "failed"
         /\ summary' = reportCatch(outcome)
    /\ pc' = "done"
    /\ UNCHANGED <<secretsOk, ENABLE_CURSOR, ENABLE_GITHUB_COPILOT, now,
                   vendorStatus, vendorResult, allUsersToNotify, allUsersToRemove,
                   totalMembers, uniqueUsersToNotify, uniqueUsersToRemove,
                   dmSuccessCount, dmFailureCount>>
    /\ UNCHANGED <<pvars, cvars, svars>>

ReportSkip ==
    /\ pc = "report"
    /\ ~reportWanted(uniqueUsersToRemove)
    /\ pc' = "done"
    /\ summary' = "completed"
    /\ UNCHANGED <<secretsOk, ENABLE_CURSOR, ENABLE_GITHUB_COPILOT, now,
                   vendorStatus, vendorResult, allUsersToNotify, allUsersToRemove,
                   totalMembers, uniqueUsersToNotify, uniqueUsersToRemove,
                   dmSuccessCount, dmFailureCount, reportCalls, reportStatus>>
    /\ UNCHANGED <<pvars, cvars, svars>>

Next ==
    \/ FetchSecrets
    \/ CursorDisabled
    \/ CursorFails
    \/ CursorProcessed
    \/ GitHubDisabled
    \/ GitHubFails
    \/ GitHubProcessed
    \/ NoServicesEnabled
    \/ NoMembers
    \/ Dispatch
    \/ \E i \in 1..(2 * MaxMembers) : DMLookupReturns(i)
    \/ \E i \in 1..(2 * MaxMembers) : DMPostReturns(i)
    \/ Tally
    \/ ReportSend
    \/ ReportSkip

Spec == Init /\ [][Next]_vars

NextSlack ==
    \/ \E userEmail \in Emails : SendInactivityWarningDM(userEmail)
    \/ \E i \in 1..MaxCalls : DMLookupReturns(i)
    \/ \E i \in 1..MaxCalls : DMPostReturns(i)

SpecSlack == InitSlack /\ [][NextSlack]_vars

(***************************************************************************)
(* SpecWindow: one call of getUsageDataDateRange                           *)
(***************************************************************************)
InitWindow ==
    /\ ClassifyIdle
    /\ HandlerIdle
    /\ enabled = TRUE
    /\ SlackIdle
    /\ call \in WindowCalls
    /\ ret = NoRet

GetUsageDataDateRange ==
    /\ call.fn = "getUsageDataDateRange"
    /\ ret = NoRet
    /\ ret' = [fn |-> "getUsageDataDateRange",
               dates |-> Dates_getUsageDataDateRange(call),
               secrets |-> Secrets_getUsageDataDateRange(call)]
    /\ UNCHANGED <<call, cvars, hvars, svars>>

NextWindow == GetUsageDataDateRange

SpecWindow == InitWindow /\ [][NextWindow]_vars

(***************************************************************************)
(* SpecDispatcher: one caching SlackApi instance serving warning calls     *)
(* (which may overlap) and one channel notification, issued as its callers *)
(* do when no warning call is in flight; warnings may follow it.  At most  *)
(* MaxCalls operations in all.                                             *)
(***************************************************************************)
Operations == Len(dm) + (IF ret = NoRet THEN 0 ELSE 1)

\* the two tiers of one classification: no email in both
TierPairs ==
    { p \in Rosters \X Rosters : EmailsOf(p[1]) \cap EmailsOf(p[2]) = {} }

SendChannelNotification ==
    /\ ret = NoRet
    /\ Operations < MaxCalls
    /\ \A i \in DOMAIN dm : dm[i].st = "done"
    /\ \E <<usersToNotify, usersToRemove>> \in TierPairs,
          lookup \in LookupAnswers, post \in PostOutcomes :
         LET channel == sendChannelNotification(enabled, userIdCache, "U:admin", usersToNotify, usersToRemove, lookup, post)
         IN /\ ret' = [fn |-> "sendChannelNotification", cacheAtCall |-> userIdCache,
                       emails |-> EmailsOf(usersToNotify \o usersToRemove),
                       failed |-> { e \in Range(channel.lookups) : lookup[e] # "ok" },
                       channel |-> channel]
            /\ userIdCache' = channel.cache
    /\ UNCHANGED <<call, cvars, hvars, enabled, dm, dmPosted>>

DispatcherWarning(userEmail) ==
    /\ Operations < MaxCalls
    /\ SendInactivityWarningDM(userEmail)

NextDispatcher ==
    \/ \E userEmail \in Emails : DispatcherWarning(userEmail)
    \/ \E i \in 1..MaxCalls : DMLookupReturns(i)
    \/ \E i \in 1..MaxCalls : DMPostReturns(i)
    \/ SendChannelNotification

SpecDispatcher == InitSlack /\ [][NextDispatcher]_vars

(***************************************************************************)
(* SpecLocalServer: checkInactiveCursorUsers of the local server, from the *)
(* tiers processInactiveUsers returned: one warning call for the joined    *)
(* emails, then the removal report                                         *)
(***************************************************************************)
\* usersToNotify.map(u => u.email).join(',')
RECURSIVE joinEmails(_)
joinEmails(users) ==
    IF users = <<>> THEN ""
    ELSE IF Len(users) = 1 THEN users[1].email
    ELSE users[1].email \o "," \o joinEmails(Tail(users))

InitLocalServer ==
    /\ ClassifyIdle
    /\ HandlerIdle
    /\ enabled \in BOOLEAN
    /\ SlackIdle
    /\ call \in { [fn |-> "checkInactiveCursorUsers", st |-> "warn",
                   usersToNotify |-> p[1], usersToRemove |-> p[2]] : p \in TierPairs }
    /\ ret = NoRet

\* if (usersToNotify.length > 0) await slackApi.sendInactivityWarningDM(joined)
LocalServerWarn ==
    /\ call.fn = "checkInactiveCursorUsers"
    /\ call.st = "warn"
    /\ dm' = IF Len(call.usersToNotify) > 0
             THEN <<dmStart(enabled, {}, joinEmails(call.usersToNotify))>>
             ELSE <<>>
    /\ call' = [call EXCEPT !.st = "report"]
    /\ UNCHANGED <<ret, cvars, hvars, enabled, userIdCache, dmPosted>>

\* users.lookupByEmail answers the warning call (this SlackApi has no cache)
LocalServerLookupReturns ==
    /\ call.fn = "checkInactiveCursorUsers"
    /\ Len(dm) = 1
    /\ dm[1].st = "lookup"
    /\ \E outcome \in LookupOutcomes : dm' = <<dmAfterLookup(dm[1], outcome)>>
    /\ UNCHANGED <<pvars, cvars, hvars, enabled, userIdCache, dmPosted>>

\* chat.postMessage answers the warning call
LocalServerPostReturns ==
    /\ call.fn = "checkInactiveCursorUsers"
    /\ Len(dm) = 1
    /\ dm[1].st = "post"
    /\ \E outcome \in PostOutcomes :
         /\ dm' = <<dmAfterPost(dm[1], outcome)>>
         /\ dmPosted' = IF outcome = "ok" THEN {<<dm[1].userId, dm[1].email>>} ELSE {}
    /\ UNCHANGED <<pvars, cvars, hvars, enabled, userIdCache>>

\* if (usersToRemove.length > 0) await sendRemovalCandidatesNotification(...)
LocalServerReport ==
    /\ call.fn = "checkInactiveCursorUsers"
    /\ call.st = "report"
    /\ \A i \in DOMAIN dm : dm[i].st = "done"
    /\ \E lookup \in LookupAnswers, post \in PostOutcomes :
         ret' = [fn |-> "checkInactiveCursorUsers",
                 report |-> IF Len(call.usersToRemove) > 0
                            THEN << Apis_sendRemovalCandidatesNotification(enabled, "U:admin", call.usersToRemove, lookup, post) >>
                            ELSE <<>>]
    /\ call' = [call EXCEPT !.st = "returned"]
    /\ UNCHANGED <<cvars, hvars, svars>>

NextLocalServer ==
    \/ LocalServerWarn
    \/ LocalServerLookupReturns
    \/ LocalServerPostReturns
    \/ LocalServerReport

SpecLocalServer == InitLocalServer /\ [][NextLocalServer]_vars

(***************************************************************************)
(* SpecSeats: GitHubApi.fetchAllCopilotSeats.  The seat i of page p is the *)
(* pair <<p, i>>; the API answers each request with 0..PER_PAGE seats or   *)
(* an error, and with a short page or an error by page MaxPages.           *)
(***************************************************************************)
PER_PAGE == 100

seatsOfPage(page, n) == [i \in 1..n |-> <<page, i>>]

\* the loop goes on until the first empty page
hasMorePages_UntilEmpty(seats) == Len(seats) > 0

\* hasMorePages = response.seats.length === 100
hasMorePages(seats) == Len(seats) = PER_PAGE

InitSeats ==
    /\ ClassifyIdle
    /\ HandlerIdle
    /\ enabled = TRUE
    /\ SlackIdle
    /\ call = [fn |-> "fetchAllCopilotSeats", st |-> "running", page |-> 1,
               hasMorePages |-> TRUE, allSeats |-> <<>>, requests |-> <<>>,
               responses |-> <<>>]
    /\ ret = NoRet

\* one turn of the loop whose request is answered with n seats; the loop's
\* exit and the return belong to the turn that clears hasMorePages
FetchPage ==
    /\ call.fn = "fetchAllCopilotSeats"
    /\ call.st = "running"
    /\ call.hasMorePages
    /\ call.page <= MaxPages
    /\ \E n \in 0..PER_PAGE :
         /\ call.page = MaxPages => n < PER_PAGE
         /\ LET seats == seatsOfPage(call.page, n)
                more == hasMorePages(seats)
                all == call.allSeats \o seats
            IN /\ call' = [call EXCEPT !.allSeats = all,
                                       !.hasMorePages = more,
                                       !.page = call.page + 1,
                                       !.requests = Append(call.requests, [page |-> call.page, perPage |-> PER_PAGE]),
                                       !.responses = Append(call.responses, n),
                                       !.st = IF more THEN "running" ELSE "returned"]
               /\ ret' = IF more THEN ret
                         ELSE [fn |-> "fetchAllCopilotSeats", threw |-> FALSE, seats |-> all]
    /\ UNCHANGED <<cvars, hvars, svars>>

\* the request rejects: logged and rethrown, allSeats is dropped
FetchPageFails ==
    /\ call.fn = "fetchAllCopilotSeats"
    /\ call.st = "running"
    /\ call.hasMorePages
    /\ call.page <= MaxPages
    /\ call' = [call EXCEPT !.requests = Append(call.requests, [page |-> call.page, perPage |-> PER_PAGE]),
                            !.st = "rejected"]
    /\ ret' = [fn |-> "fetchAllCopilotSeats", threw |-> TRUE]
    /\ UNCHANGED <<cvars, hvars, svars>>

NextSeats ==
    \/ FetchPage
    \/ FetchPageFails

\* every request is answered
SpecSeats == InitSeats /\ [][NextSeats]_vars /\ WF_vars(NextSeats)

(***************************************************************************)
(* SpecTiers: one classification, by CursorOperations (roster and two      *)
(* usage windows) or by GitHubOperations (seats and two thresholds)        *)
(***************************************************************************)
DayThresholds == {30, 60, 90}

CursorCalls ==
    [fn : {"CursorOperations.categorizeInactiveUsers"},
     members : SeqsUpTo(Users, MaxMembers),
     notifyPeriodUsage : SeqsUpTo(UsageEntries, MaxRecords),
     removePeriodUsage : SeqsUpTo(UsageEntries, MaxRecords)]

GitHubCalls ==
    [fn : {"GitHubOperations.categorizeInactiveUsers"},
     seats : SeatLists, nowDay : NowDays,
     notifyAfterDays : DayThresholds, removeAfterDays : DayThresholds]

InitTiers ==
    /\ ClassifyIdle
    /\ HandlerIdle
    /\ enabled = TRUE
    /\ SlackIdle
    /\ call \in CursorCalls \cup GitHubCalls
    /\ ret = NoRet

CursorCategorize ==
    /\ call.fn = "CursorOperations.categorizeInactiveUsers"
    /\ ret = NoRet
    /\ ret' = [fn |-> call.fn] @@ categorizeInactiveUsers(call.members, call.notifyPeriodUsage, call.removePeriodUsage)
    /\ UNCHANGED <<call, cvars, hvars, svars>>

GitHubCategorize ==
    /\ call.fn = "GitHubOperations.categorizeInactiveUsers"
    /\ ret = NoRet
    /\ ret' = [fn |-> call.fn] @@ GitHub_categorizeInactiveUsers(call.seats, getDateRanges(call.nowDay, call.notifyAfterDays, call.removeAfterDays))
    /\ UNCHANGED <<call, cvars, hvars, svars>>

NextTiers ==
    \/ CursorCategorize
    \/ GitHubCategorize

SpecTiers == InitTiers /\ [][NextTiers]_vars

(***************************************************************************)
(* SpecConfig: reading NOTIFY_AFTER_DAYS and REMOVE_AFTER_DAYS from the    *)
(* environment at startup.  A raw value is a sequence of characters; a     *)
(* number is a fraction num/den, or NaN.                                   *)
(***************************************************************************)
Undefined == <<"undefined">>

RawValues ==
    { Undefined, <<>>, <<"6", "0">>, <<"9", "0">>, <<"0">>, <<"-", "5">>,
      <<"1", ".", "5">>, <<"6", "0", ".", "0">>, <<"a", "b", "c">>, <<"7", "x">> }

DigitChars == <<"0", "1", "2", "3", "4", "5", "6", "7", "8", "9">>

IsDigit(ch) == \E i \in 1..Len(DigitChars) : DigitChars[i] = ch

DigitValue(ch) == (CHOOSE i \in 1..Len(DigitChars) : DigitChars[i] = ch) - 1

RECURSIVE digitPrefixLen(_)
digitPrefixLen(s) ==
    IF s = <<>> \/ ~IsDigit(Head(s)) THEN 0 ELSE 1 + digitPrefixLen(Tail(s))

RECURSIVE digitsValue(_)
digitsValue(s) ==
    IF s = <<>> THEN 0
    ELSE 10 * digitsValue(SubSeq(s, 1, Len(s) - 1)) + DigitValue(s[Len(s)])

RECURSIVE PowerOfTen(_)
PowerOfTen(n) == IF n = 0 THEN 1 ELSE 10 * PowerOfTen(n - 1)

NaN == [nan |-> TRUE, num |-> 0, den |-> 1]

Num(n, d) == [nan |-> FALSE, num |-> n, den |-> d]

signOf(s) == IF s # <<>> /\ s[1] = "-" THEN -1 ELSE 1

unsigned(s) == IF s # <<>> /\ s[1] \in {"-", "+"} THEN Tail(s) ELSE s

\* Number.parseInt(s, 10): sign, then the longest prefix of digits
Number_parseInt(s) ==
    LET body == unsigned(s)
        n == digitPrefixLen(body)
    IN IF n = 0 THEN NaN ELSE Num(signOf(s) * digitsValue(SubSeq(body, 1, n)), 1)

\* Number(s): the whole string must be a decimal literal; "" is 0
ToNumber(s) ==
    LET body == unsigned(s)
        n == digitPrefixLen(body)
        rest == SubSeq(body, n + 1, Len(body))
        frac == IF rest = <<>> THEN <<>> ELSE Tail(rest)
    IN IF s = <<>> THEN Num(0, 1)
       ELSE IF rest = <<>>
            THEN IF n = 0 THEN NaN ELSE Num(signOf(s) * digitsValue(body), 1)
       ELSE IF rest[1] = "." /\ digitPrefixLen(frac) = Len(frac) /\ n + Len(frac) > 0
            THEN Num(signOf(s) * digitsValue(SubSeq(body, 1, n) \o frac), PowerOfTen(Len(frac)))
       ELSE NaN

\* lambda/index.ts: Number.parseInt(process.env.X || fallback, 10)
parseDays(raw, fallback) ==
    Number_parseInt(IF raw = Undefined \/ raw = <<>> THEN fallback ELSE raw)

\* z.coerce.number().default(d): undefined takes the default, NaN is an issue
coerceNumberDefault(raw, default) ==
    IF raw = Undefined THEN [success |-> TRUE, data |-> Num(default, 1)]
    ELSE [success |-> ~ToNumber(raw).nan, data |-> ToNumber(raw)]

\* utils/env.ts getEnv: throws when the schema does not parse
getEnv(env) ==
    LET notify == coerceNumberDefault(env.NOTIFY_AFTER_DAYS, 60)
        remove == coerceNumberDefault(env.REMOVE_AFTER_DAYS, 90)
    IN IF notify.success /\ remove.success
       THEN [threw |-> FALSE, NOTIFY_AFTER_DAYS |-> notify.data, REMOVE_AFTER_DAYS |-> remove.data]
       ELSE [threw |-> TRUE, NOTIFY_AFTER_DAYS |-> NaN, REMOVE_AFTER_DAYS |-> NaN]

\* lambda/index.ts module constants: nothing is checked, nothing throws
handlerConfig(env) ==
    [threw |-> FALSE,
     NOTIFY_AFTER_DAYS |-> parseDays(env.NOTIFY_AFTER_DAYS, <<"6", "0">>),
     REMOVE_AFTER_DAYS |-> parseDays(env.REMOVE_AFTER_DAYS, <<"9", "0">>)]

InitConfig ==
    /\ ClassifyIdle
    /\ HandlerIdle
    /\ enabled = TRUE
    /\ SlackIdle
    /\ call \in [fn : {"startup"}, NOTIFY_AFTER_DAYS : RawValues, REMOVE_AFTER_DAYS : RawValues]
    /\ ret = NoRet

Startup ==
    /\ call.fn = "startup"
    /\ ret = NoRet
    /\ ret' = [fn |-> "startup", handler |-> handlerConfig(call), getEnv |-> getEnv(call)]
    /\ UNCHANGED <<call, cvars, hvars, svars>>

NextConfig == Startup

SpecConfig == InitConfig /\ [][NextConfig]_vars

(***************************************************************************)
(* SpecWindowPair: getUsageDataDateRange called for two arguments at the   *)
(* same instant (as processInactiveUsers does for its two thresholds)      *)
(***************************************************************************)
InitWindowPair ==
    /\ ClassifyIdle
    /\ HandlerIdle
    /\ enabled = TRUE
    /\ SlackIdle
    /\ call \in { [fn |-> "getUsageDataDateRange twice", first |-> a, second |-> b] :
                     <<a, b>> \in { p \in WindowCalls \X WindowCalls :
                                      /\ p[1].nowMs = p[2].nowMs
                                      /\ p[1].dateOfMonth = p[2].dateOfMonth
                                      /\ p[1].tickMs = p[2].tickMs } }
    /\ ret = NoRet

GetUsageDataDateRangeTwice ==
    /\ call.fn = "getUsageDataDateRange twice"
    /\ ret = NoRet
    /\ ret' = [fn |-> "getUsageDataDateRange twice",
               first |-> Dates_getUsageDataDateRange(call.first),
               second |-> Dates_getUsageDataDateRange(call.second),
               secretsFirst |-> Secrets_getUsageDataDateRange(call.first),
               secretsSecond |-> Secrets_getUsageDataDateRange(call.second)]
    /\ UNCHANGED <<call, cvars, hvars, svars>>

NextWindowPair == GetUsageDataDateRangeTwice

SpecWindowPair == InitWindowPair /\ [][NextWindowPair]_vars

(***************************************************************************)
(* SpecMerge: the handler from the point where both vendor blocks have     *)
(* pushed their results, for any pair of vendor results                    *)
(***************************************************************************)
\* the identities a vendor can report: the same person can come with another
\* display name (GitHub reports the login) or another spelling of the email
Identities == Users \cup { [name |-> "ann", email |-> "a@x.io"],
                           [name |-> "ANN", email |-> "A@x.io"] }

\* a vendor's tier: no email (as spelled) twice
IdentityLists ==
    { l \in SeqsUpTo(Identities, MaxMembers) :
        \A i, j \in DOMAIN l : i # j => l[i].email # l[j].email }

\* a vendor's result: the tiers share no email, every listed user is a member
VendorResults ==
    { [members |-> Len(n) + Len(r), usersToNotify |-> n, usersToRemove |-> r] :
        <<n, r>> \in { p \in IdentityLists \X IdentityLists :
                         /\ Len(p[1]) + Len(p[2]) <= MaxMembers
                         /\ EmailsOf(p[1]) \cap EmailsOf(p[2]) = {} } }

InitMerge ==
    /\ ClassifyIdle
    /\ CallIdle
    /\ SlackIdle
    /\ enabled = TRUE
    /\ pc = "check"
    /\ summary = "none"
    /\ secretsOk = TRUE
    /\ ENABLE_CURSOR = TRUE
    /\ ENABLE_GITHUB_COPILOT = TRUE
    /\ now \in NowDays
    /\ vendorStatus = [v \in Vendors |-> "ok"]
    /\ vendorResult \in [Vendors -> VendorResults]
    /\ allUsersToNotify = vendorResult["cursor"].usersToNotify
                             \o vendorResult["github"].usersToNotify
    /\ allUsersToRemove = vendorResult["cursor"].usersToRemove
                             \o vendorResult["github"].usersToRemove
    /\ totalMembers = vendorResult["cursor"].members + vendorResult["github"].members
    /\ uniqueUsersToNotify = <<>>
    /\ uniqueUsersToRemove = <<>>
    /\ dmSuccessCount = 0
    /\ dmFailureCount = 0
    /\ reportCalls = 0
    /\ reportStatus = "none"

NextMerge ==
    \/ NoMembers
    \/ Dispatch

SpecMerge == InitMerge /\ [][NextMerge]_vars

NextCursorRun ==
    \/ CursorRunFetchFails
    \/ CursorRunFetch
    \/ CursorRunNextDM
    \/ \E i \in 1..MaxMembers : DMLookupReturns(i)
    \/ \E i \in 1..MaxMembers : DMPostReturns(i)
    \/ CursorRunReport
    \/ CursorRunNoReport

SpecCursorRun == InitCursorRun /\ [][NextCursorRun]_vars

(***************************************************************************)
(* Properties of the classifiers (checked under SpecClassify)              *)
(***************************************************************************)
NoOverlap(r) == EmailsOf(r.usersToNotify) \cap EmailsOf(r.usersToRemove) = {}

ActiveIn(recs, email) ==
    \E i \in DOMAIN recs : recs[i].email = email /\ recs[i].isActive

\* the set-based reference of the classification
RefInactive(roster, recs) ==
    SelectSeq(roster, LAMBDA m : ~ActiveIn(recs, m.email))

RefToRemove == RefInactive(members, removePeriodUsage)

RefRemovedEmail(m) == \E i \in DOMAIN RefToRemove : RefToRemove[i].email = m.email

RefToNotify ==
    SelectSeq(RefInactive(members, notifyPeriodUsage), LAMBDA m : ~RefRemovedEmail(m))

InSeq(x, s) == \E i \in DOMAIN s : s[i] = x

NoActiveEntry(recs) == \A i \in DOMAIN recs : ~recs[i].isActive

\* C1: removal precedence in classification -- for every roster and every
\* pair of usage lists, no email is in both usersToRemove and usersToNotify
\* of the result of categorizeInactiveUsers (CursorOperations' and the
\* analyzer module's).
C1_RemovalPrecedence ==
    cpc = "done" => NoOverlap(result) /\ NoOverlap(analyzerResult)

\* C3 as stated: the result equals the set-based reference; a member active
\* in the remove window but not in the notify window is in toNotify and not
\* in toRemove; a member active in the notify window is in neither list.
C3_Original ==
    cpc = "done" =>
        /\ result.usersToRemove = RefToRemove
        /\ result.usersToNotify = RefToNotify
        /\ \A k \in DOMAIN members :
             /\ (ActiveIn(removePeriodUsage, members[k].email)
                   /\ ~ActiveIn(notifyPeriodUsage, members[k].email))
                => (InSeq(members[k], result.usersToNotify)
                      /\ ~InSeq(members[k], result.usersToRemove))
             /\ ActiveIn(notifyPeriodUsage, members[k].email)
                => (~InSeq(members[k], result.usersToNotify)
                      /\ ~InSeq(members[k], result.usersToRemove))

\* C3 amended: the result equals the set-based reference (roster order
\* kept); a member active in the remove window but not in the notify window
\* is in toNotify and not in toRemove; a member active in the notify window
\* is never in toNotify, and is in neither list when it is also active in
\* the remove window.
C3_MatchesReference ==
    cpc = "done" =>
        /\ result.usersToRemove = RefToRemove
        /\ result.usersToNotify = RefToNotify
        /\ \A k \in DOMAIN members :
             /\ (ActiveIn(removePeriodUsage, members[k].email)
                   /\ ~ActiveIn(notifyPeriodUsage, members[k].email))
                => (InSeq(members[k], result.usersToNotify)
                      /\ ~InSeq(members[k], result.usersToRemove))
             /\ ActiveIn(notifyPeriodUsage, members[k].email)
                => ~InSeq(members[k], result.usersToNotify)
             /\ (ActiveIn(notifyPeriodUsage, members[k].email)
                   /\ ActiveIn(removePeriodUsage, members[k].email))
                => ~InSeq(members[k], result.usersToRemove)

\* a roster of two members, one active only in the remove window (notified),
\* one active in both windows (in neither list)
C3_Witness ==
    /\ cpc = "done"
    /\ Len(members) = 2
    /\ ActiveIn(removePeriodUsage, members[1].email)
    /\ ~ActiveIn(notifyPeriodUsage, members[1].email)
    /\ ActiveIn(notifyPeriodUsage, members[2].email)
    /\ ActiveIn(removePeriodUsage, members[2].email)
    /\ result.usersToNotify = <<members[1]>>
    /\ result.usersToRemove = <<>>

C6_EmptyRoster ==
    (cpc = "done" /\ members = <<>>) =>
        /\ result = NoResult
        /\ analyzerResult = NoResult

(***************************************************************************)
(* Properties of the run (checked under Spec)                              *)
(***************************************************************************)
Dispatched == pc \in {"awaitDMs", "report"} \/ summary = "completed"

DmEmails == { dm[i].email : i \in DOMAIN dm }

\* C2: global removal precedence -- an email in any vendor's toRemove is
\* never in the merged toNotify that drives the warning DMs.
C2_GlobalRemovalPrecedence ==
    Dispatched =>
        \A v \in Vendors :
            /\ EmailsOf(vendorResult[v].usersToRemove)
                 \cap EmailsOf(uniqueUsersToNotify) = {}
            /\ EmailsOf(vendorResult[v].usersToRemove) \cap DmEmails = {}

Other(v) == IF v = "cursor" THEN "github" ELSE "cursor"

Enabled(v) == IF v = "cursor" THEN ENABLE_CURSOR ELSE ENABLE_GITHUB_COPILOT

\* C7: vendor failure isolation -- a vendor's failure does not make the run
\* reject; the failed vendor contributes nothing; the other enabled vendor
\* is still processed, and what it returned is merged and dispatched.
C7_VendorFailureIsolation ==
    \A v \in Vendors :
        vendorStatus[v] = "failed" =>
            /\ summary # "rejected"
            /\ vendorResult[v] = NoVendorResult
            /\ allUsersToNotify = vendorResult[Other(v)].usersToNotify
            /\ allUsersToRemove = vendorResult[Other(v)].usersToRemove
            /\ totalMembers = vendorResult[Other(v)].members
            /\ (pc \notin {"cursor", "github"} /\ Enabled(Other(v)))
                 => vendorStatus[Other(v)] \in {"ok", "failed"}
            /\ (pc = "done" /\ vendorResult[Other(v)].members > 0)
                 => summary = "completed"
            /\ summary = "completed" =>
                 /\ EmailsOf(vendorResult[Other(v)].usersToNotify)
                      = { dm[i].email : i \in { j \in DOMAIN dm : dm[j].st = "done" } }
                 /\ EmailsOf(vendorResult[Other(v)].usersToRemove)
                      = EmailsOf(uniqueUsersToRemove)
                 /\ vendorResult[Other(v)].usersToRemove # <<>> => reportCalls = 1

\* Cursor failed; GitHub's warning and GitHub's removal candidate went out
C7_Witness ==
    /\ summary = "completed"
    /\ vendorStatus["cursor"] = "failed"
    /\ vendorStatus["github"] = "ok"
    /\ Len(dm) = 1
    /\ dm[1].result = "true"
    /\ Len(uniqueUsersToRemove) = 1
    /\ reportStatus = "sent"

\* C8: sendInactivityWarningDM never raises; it returns false when the
\* lookup fails, when the lookup yields no user id and when the post
\* fails, and returns true only when the message was posted to the handle
\* resolved for the email.
C8_SendWarningNeverRaises ==
    /\ \A p \in dmPosted :
         /\ p[1] = SlackIdOf(p[2])
         /\ \E j \in DOMAIN dm : dm[j].email = p[2] /\ dm[j].result = "true"
    /\ \A i \in DOMAIN dm :
        /\ dm[i].result # "rejected"
        /\ dm[i].st = "done" => dm[i].result \in {"true", "false"}
        /\ dm[i].lookup \in {"error", "noid"} => dm[i].result = "false"
        /\ dm[i].post = "error" => dm[i].result = "false"
        /\ (dm[i].st = "done" /\ ~enabled) => dm[i].result = "false"
        /\ dm[i].result = "true" =>
             /\ dm[i].lookup = "ok" \/ dm[i].lookup = "cached"
             /\ dm[i].post = "ok"
             /\ dm[i].userId = SlackIdOf(dm[i].email)
             /\ <<SlackIdOf(dm[i].email), dm[i].email>> \in dmPosted

\* three calls on one instance: a delivered DM, a call served from the cache
\* whose post failed, a call whose lookup failed
C8_Witness ==
    /\ Len(dm) = 3
    /\ AllSettled
    /\ dm[1].lookup = "ok" /\ dm[1].result = "true"
    /\ dm[2].lookup = "cached" /\ dm[2].post = "error" /\ dm[2].result = "false"
    /\ dm[3].lookup \in {"error", "noid"} /\ dm[3].result = "false"

\* C9: a failed DM does not stop the others; warned is the number of DMs
\* that returned true; warned + warnFailed is the number of identities in
\* the merged toNotify; the removal report is still attempted when toRemove
\* is not empty.
C9_DMTally ==
    /\ Dispatched =>
         /\ Len(dm) = Len(uniqueUsersToNotify)
         /\ \A i \in DOMAIN dm : dm[i].email = uniqueUsersToNotify[i].email
    /\ (pc = "report" \/ summary = "completed") =>
         /\ AllSettled
         /\ dmSuccessCount = Cardinality(Fulfilled("true"))
         /\ dmSuccessCount + dmFailureCount = Len(uniqueUsersToNotify)
    /\ summary = "completed" =>
         (Len(uniqueUsersToRemove) > 0 => reportCalls = 1)

\* the first of two DMs failed, the second was delivered, the report went out
C9_Witness ==
    /\ summary = "completed"
    /\ Len(dm) = 2
    /\ dm[1].result = "false"
    /\ dm[2].result = "true"
    /\ dmSuccessCount = 1
    /\ dmFailureCount = 1
    /\ reportCalls = 1

C10_WitnessNone ==
    /\ pc = "done"
    /\ summary = "completed"
    /\ allUsersToRemove = <<>>
    /\ reportCalls = 0

\* C11: only a startup configuration/secret failure makes the run reject;
\* once the secrets are loaded, no vendor failure, DM failure or failed
\* removal-report send does: the handler returns normally.
C11_OnlyStartupFailureRejects ==
    /\ summary = "rejected" <=> (pc = "done" /\ ~secretsOk)
    /\ summary = "rejected" =>
         /\ \A v \in Vendors : vendorStatus[v] = "pending"
         /\ dm = <<>>
         /\ reportCalls = 0
    /\ (pc = "done" /\ secretsOk) =>
         summary \in {"completed", "noServices", "noMembers"}

\* a vendor failed, a DM failed and the report send failed; the run completed
C11_Witness ==
    /\ secretsOk
    /\ summary = "completed"
    /\ vendorStatus["cursor"] = "failed"
    /\ \E i \in DOMAIN dm : dm[i].result = "false" /\ dm[i].post = "error"
    /\ reportStatus = "failed"

(***************************************************************************)
(* Properties of the removal report (checked under SpecReport)             *)
(***************************************************************************)
Reported == ret.fn = "sendRemovalReport"

\* C12: sendRemovalReport raises to its caller when the final message send
\* fails -- when the chat API rejects the post of the rollup message, the
\* call rejects instead of returning normally (each SlackApi version).
C12_ReportRaisesOnSendFailure ==
    (Reported /\ call.post = "error") =>
        /\ ret.services.posts # <<>> => ret.services.result = "rejected"
        /\ ret.apis.posts # <<>> => ret.apis.result = "rejected"
        /\ ret.channel.posts # <<>> => ret.channel.result = "rejected"

\* C13: sendRemovalReport is a no-op on an empty identity list -- no handle
\* lookup and no message post (each SlackApi version; for
\* sendChannelNotification, both of its lists empty).
C13_EmptyReportIsNoOp ==
    Reported =>
        /\ call.usersToRemove = <<>> =>
             /\ ret.services.lookups = <<>> /\ ret.services.posts = <<>>
             /\ ret.apis.lookups = <<>> /\ ret.apis.posts = <<>>
        /\ (call.usersToRemove = <<>> /\ call.usersToNotify = <<>>) =>
             /\ ret.channel.lookups = <<>> /\ ret.channel.posts = <<>>

\* the lines of a posted message list the users in order, with the mention
\* exactly for the users whose handle resolved
LinesMatch(lines, users, resolved) ==
    /\ Len(lines) = Len(users)
    /\ \A i \in DOMAIN users :
         /\ lines[i].email = users[i].email
         /\ lines[i].mention = (IF users[i].email \in resolved
                                THEN SlackIdOf(users[i].email) ELSE "")
         /\ users[i].email \notin resolved => lines[i].username = users[i].name

LookedUpOk == { e \in Emails : call.lookup[e] = "ok" }

CachedAtCall == { e \in Emails : CacheHas(ret.cacheAtCall, e) }

\* C14: the removal report lists every identity exactly once whatever the
\* lookup outcomes -- the single posted message has one line per identity in
\* input order, with the mention exactly for the identities whose handle
\* resolved and name and email only for the others; a failed lookup neither
\* drops an identity nor aborts the report.
C14_ReportListsEveryIdentity ==
    Reported =>
        /\ call.usersToRemove # <<>> =>
             /\ Len(ret.services.posts) = 1
             /\ LinesMatch(ret.services.posts[1].lines, call.usersToRemove, LookedUpOk)
        /\ (call.usersToRemove # <<>> /\ enabled /\ call.recipientUserId # NoRecipient) =>
             /\ Len(ret.apis.posts) = 1
             /\ LinesMatch(ret.apis.posts[1].lines, call.usersToRemove, LookedUpOk)
        /\ (enabled /\ call.recipientUserId # NoRecipient) =>
             /\ Len(ret.channel.posts) = 1
             /\ LinesMatch(ret.channel.posts[1].lines,
                           call.usersToNotify \o call.usersToRemove,
                           LookedUpOk \cup CachedAtCall)
             /\ \A i \in DOMAIN call.usersToNotify :
                  ret.channel.posts[1].lines[i].tier = "warning"
             /\ \A i \in DOMAIN call.usersToRemove :
                  ret.channel.posts[1].lines[Len(call.usersToNotify) + i].tier = "x"

\* two removal candidates, the first lookup rejected, the second resolved
C14_Witness ==
    /\ Reported
    /\ enabled
    /\ call.recipientUserId # NoRecipient
    /\ ret.cacheAtCall = {}
    /\ Len(call.usersToRemove) = 2
    /\ call.lookup[call.usersToRemove[1].email] = "error"
    /\ call.lookup[call.usersToRemove[2].email] = "ok"
    /\ Len(ret.services.posts[1].lines) = 2
    /\ ret.services.posts[1].lines[1].mention = ""
    /\ ret.apis.posts[1].lines[2].mention = SlackIdOf(call.usersToRemove[2].email)
    /\ Len(ret.channel.posts[1].lines) = 2 + Len(call.usersToNotify)

(***************************************************************************)
(* Properties of CursorOperations' own dispatch (checked under             *)
(* SpecCursorRun)                                                          *)
(***************************************************************************)
\* C15: notification kill-switch -- with notifications disabled, no sequence
\* of warning DMs and channel reports issues a chat-API call (neither a
\* lookup nor a post), and sendInactivityWarningDM returns false.
C15_KillSwitch ==
    ~enabled =>
        /\ dmPosted = {}
        /\ userIdCache = {}
        /\ \A i \in DOMAIN dm :
             /\ dm[i].st = "done"
             /\ dm[i].result = "false"
             /\ dm[i].lookup = "none"
             /\ dm[i].post = "none"
        /\ ret.fn = "processInactiveUsers" =>
             /\ \A k \in DOMAIN ret.report :
                  /\ ret.report[k].lookups = <<>>
                  /\ ret.report[k].posts = <<>>
                  /\ ret.report[k].result = "false"
             /\ \A k \in DOMAIN ret.apisReport :
                  /\ ret.apisReport[k].lookups = <<>>
                  /\ ret.apisReport[k].posts = <<>>

\* disabled instance: a DM was requested and the report was requested
C15_Witness ==
    /\ ~enabled
    /\ call.st = "returned"
    /\ call.notificationRecipient # NoRecipient
    /\ Len(dm) >= 1
    /\ Len(ret.report) = 1
    /\ Len(call.usersToRemove) >= 1

LowerCased(email) == IF email = "A@x.io" THEN "a@x.io" ELSE email

OnePerLowerCasedEmail(users) ==
    \A i, j \in DOMAIN users :
        i # j => LowerCased(users[i].email) # LowerCased(users[j].email)

\* C17: de-duplication by normalized email -- after the merge each tier
\* holds at most one record per lower-cased email, so identities whose emails
\* differ only in letter case collapse into one record.
C17_DedupByLowerCasedEmail ==
    pc = "awaitDMs" =>
        /\ OnePerLowerCasedEmail(uniqueUsersToNotify)
        /\ OnePerLowerCasedEmail(uniqueUsersToRemove)

\* C18: dedup idempotence -- merging an already de-duplicated vendor result
\* with itself gives that result again, same identities in the same order
\* and no duplicates, in both tiers.
C18_DedupIdempotence ==
    pc = "awaitDMs" =>
        /\ vendorResult["cursor"] = vendorResult["github"] =>
             /\ uniqueUsersToNotify = vendorResult["cursor"].usersToNotify
             /\ uniqueUsersToRemove = vendorResult["cursor"].usersToRemove
        /\ uniqueByEmail(uniqueUsersToNotify) = uniqueUsersToNotify
        /\ uniqueByEmail(uniqueUsersToRemove) = uniqueUsersToRemove

\* both vendors returned the same result, with an identity in each tier
C18_Witness ==
    /\ pc = "awaitDMs"
    /\ vendorResult["cursor"] = vendorResult["github"]
    /\ Len(vendorResult["cursor"].usersToNotify) >= 1
    /\ Len(vendorResult["cursor"].usersToRemove) >= 1
    /\ Len(allUsersToRemove) = 2 * Len(uniqueUsersToRemove)
    /\ uniqueUsersToNotify = vendorResult["github"].usersToNotify

(***************************************************************************)
(* Properties of the window computation (checked under SpecWindow)         *)
(***************************************************************************)
Computed == ret.fn = "getUsageDataDateRange"

ExactWindow(w) ==
    /\ ~w.threw
    /\ w.endDateEpochMs \in call.nowMs..(call.nowMs + call.tickMs)
    /\ 2 * (w.endDateEpochMs - w.startDateEpochMs) = call.twiceDaysBack * MsPerDay

\* C19: window computation -- for every non-negative integer daysBack,
\* getUsageDataDateRange returns endEpochMs equal to the current time at the
\* call and startEpochMs equal to endEpochMs - daysBack * 86,400,000 exactly.
C19_WindowComputation ==
    (Computed /\ call.twiceDaysBack >= 0 /\ IsInteger(call.twiceDaysBack)) =>
        /\ ExactWindow(ret.secrets)
        /\ ExactWindow(ret.dates)

\* C20: window input validation -- getUsageDataDateRange rejects every
\* negative or non-integer daysBack with an error and returns no window.
C20_WindowValidation ==
    (Computed /\ (call.twiceDaysBack < 0 \/ ~IsInteger(call.twiceDaysBack))) =>
        /\ ret.secrets.threw
        /\ ret.dates.threw

(***************************************************************************)
(* Properties of two windows of one instant (checked under SpecWindowPair) *)
(***************************************************************************)
ComputedTwice == ret.fn = "getUsageDataDateRange twice"

\* C21: window monotonicity -- for all daysBack1 < daysBack2 evaluated at the
\* same instant, the window of daysBack1 starts strictly later than the
\* window of daysBack2 (for every pair of arguments the function accepts).
C21_WindowMonotonicity ==
    (ComputedTwice /\ call.first.twiceDaysBack < call.second.twiceDaysBack) =>
        /\ ret.first.startDateEpochMs > ret.second.startDateEpochMs
        /\ (~ret.secretsFirst.threw /\ ~ret.secretsSecond.threw) =>
             ret.secretsFirst.startDateEpochMs > ret.secretsSecond.startDateEpochMs

\* the same for whole numbers of days only: this part holds
C21_WholeDays ==
    (/\ ComputedTwice
     /\ IsInteger(call.first.twiceDaysBack)
     /\ IsInteger(call.second.twiceDaysBack)) => C21_WindowMonotonicity

\* half a day and one day back on the 15th: the same start
C21_EqualStarts ==
    /\ ComputedTwice
    /\ call.first.twiceDaysBack = 1
    /\ call.second.twiceDaysBack = 2
    /\ call.first.dateOfMonth = 15
    /\ ret.first.startDateEpochMs = ret.second.startDateEpochMs

(***************************************************************************)
(* Properties of the startup configuration (checked under SpecConfig)      *)
(***************************************************************************)
Started == ret.fn = "startup"

\* what the raw value denotes as a number; an unset variable is its default
IsPositiveInteger(raw) ==
    \/ raw = Undefined
    \/ /\ ~ToNumber(raw).nan
       /\ ToNumber(raw).num > 0
       /\ ToNumber(raw).num % ToNumber(raw).den = 0

\* C22: fail-fast configuration -- a notifyAfterDays or removeAfterDays value
\* that is not a positive integer (zero, negative, fractional or non-numeric)
\* is rejected at startup, by the handler's constants and by getEnv.
C22_FailFastConfiguration ==
    (/\ Started
     /\ \/ ~IsPositiveInteger(call.NOTIFY_AFTER_DAYS)
        \/ ~IsPositiveInteger(call.REMOVE_AFTER_DAYS)) =>
        /\ ret.handler.threw
        /\ ret.getEnv.threw

\* NOTIFY_AFTER_DAYS=0 is accepted by both readers
C22_ZeroAccepted ==
    /\ Started
    /\ call.NOTIFY_AFTER_DAYS = <<"0">>
    /\ call.REMOVE_AFTER_DAYS = <<"9", "0">>
    /\ ~ret.handler.threw /\ ret.handler.NOTIFY_AFTER_DAYS = Num(0, 1)
    /\ ~ret.getEnv.threw /\ ret.getEnv.NOTIFY_AFTER_DAYS = Num(0, 1)

\* getEnv rejects a value that is not a number, and nothing else
C22_GetEnvRejectsOnlyNaN ==
    Started => (ret.getEnv.threw <=> \/ ToNumber(call.NOTIFY_AFTER_DAYS).nan /\ call.NOTIFY_AFTER_DAYS # Undefined
                                     \/ ToNumber(call.REMOVE_AFTER_DAYS).nan /\ call.REMOVE_AFTER_DAYS # Undefined)

(***************************************************************************)
(* Properties of the handle cache (checked under SpecDispatcher)           *)
(***************************************************************************)
Notified == ret.fn = "sendChannelNotification"

\* the warning call this step starts, if it starts one
StartsWarning == Len(dm') = Len(dm) + 1

\* C23: cache-first handle resolution -- a successful lookup puts the handle
\* in the cache, a cached handle stays as it is, and a warning call or a
\* channel notification that starts while the cache holds an email's handle
\* uses that handle and issues no lookup for that email.
C23_CacheFirst ==
    [][ /\ \A i \in DOMAIN dm :
             (dm[i].st = "lookup" /\ dm'[i].lookup = "ok") =>
                <<dm[i].email, SlackIdOf(dm[i].email)>> \in userIdCache'
        /\ userIdCache \subseteq userIdCache'
        /\ (StartsWarning /\ enabled) =>
             LET t == dm'[Len(dm')]
             IN CacheHas(userIdCache, t.email) =>
                  /\ t.lookup = "cached"
                  /\ t.st = "post"
                  /\ t.userId = CacheGet(userIdCache, t.email)
        /\ (ret = NoRet /\ ret' # NoRet) =>
             /\ \A k \in DOMAIN ret'.channel.lookups :
                  ~CacheHas(userIdCache, ret'.channel.lookups[k])
             /\ \A m \in DOMAIN ret'.channel.posts :
                  \A k \in DOMAIN ret'.channel.posts[m].lines :
                     LET line == ret'.channel.posts[m].lines[k]
                     IN CacheHas(userIdCache, line.email) =>
                          line.mention = CacheGet(userIdCache, line.email)
      ]_vars

\* a@x.io resolved by the first warning, served from the cache to the second
\* warning and to a notification that lists both emails and looks up b@x.io
C23_Witness ==
    /\ Len(dm) >= 2
    /\ dm[1].email = "a@x.io" /\ dm[1].lookup = "ok"
    /\ dm[2].email = "a@x.io" /\ dm[2].lookup = "cached" /\ dm[2].result = "true"
    /\ Notified
    /\ ret.emails = Emails
    /\ ret.cacheAtCall = {<<"a@x.io", SlackIdOf("a@x.io")>>}
    /\ ret.channel.lookups = <<"b@x.io">>
    /\ Len(ret.channel.posts) = 1

(***************************************************************************)
(* Warning attempts per identity                                           *)
(***************************************************************************)
AttemptsFor(email) == { i \in DOMAIN dm : dm[i].email = email }

\* C24: one warning attempt per identity -- once the warnings are issued,
\* each identity of the final toNotify has exactly one warning call,
\* addressed to its own email, and no call is addressed to anything else.
\* Stated for the local server's run (checked under SpecLocalServer).
C24_OneWarningPerIdentity ==
    (call.fn = "checkInactiveCursorUsers" /\ call.st # "warn") =>
        /\ \A k \in DOMAIN call.usersToNotify :
              Cardinality(AttemptsFor(call.usersToNotify[k].email)) = 1
        /\ \A i \in DOMAIN dm : dm[i].email \in EmailsOf(call.usersToNotify)

\* two identities to warn, one call addressed to their joined emails
C24_JoinedEmails ==
    /\ call.fn = "checkInactiveCursorUsers"
    /\ Len(call.usersToNotify) = 2
    /\ Len(dm) = 1
    /\ dm[1].email = "a@x.io,b@x.io"

\* the same claim for the handler's run (checked under SpecMerge), an
\* identity being a lower-cased email: one call per identity of the merged
\* toNotify
C24_OneWarningPerIdentityInHandler ==
    pc = "awaitDMs" =>
        /\ \A k \in DOMAIN uniqueUsersToNotify :
              Cardinality({ i \in DOMAIN dm : LowerCased(dm[i].email)
                               = LowerCased(uniqueUsersToNotify[k].email) }) = 1
        /\ \A i \in DOMAIN dm : dm[i].email \in EmailsOf(uniqueUsersToNotify)

\* the handler's run: one call per email as spelled
C24_OneWarningPerSpelling ==
    pc = "awaitDMs" =>
        /\ \A k \in DOMAIN uniqueUsersToNotify :
              Cardinality(AttemptsFor(uniqueUsersToNotify[k].email)) = 1
        /\ \A e \in EmailsOf(allUsersToNotify) : Cardinality(AttemptsFor(e)) = 1
        /\ \A i \in DOMAIN dm : dm[i].email \in EmailsOf(allUsersToNotify)

(***************************************************************************)
(* Properties of fetchAllCopilotSeats (checked under SpecSeats)            *)
(***************************************************************************)
SeatsCall == call.fn = "fetchAllCopilotSeats"

\* pages 1, 2, 3, ... in order, page size 100
RequestsInOrder ==
    \A k \in DOMAIN call.requests :
        call.requests[k] = [page |-> k, perPage |-> 100]

\* no request after a short page: every answered page but the last is full
StopsAtFirstShortPage ==
    /\ \A k \in DOMAIN call.responses :
          k < Len(call.responses) => call.responses[k] = 100
    /\ call.st = "running" =>
          /\ \A k \in DOMAIN call.responses : call.responses[k] = 100
          /\ Len(call.requests) = Len(call.responses)
    /\ call.st = "returned" =>
          /\ Len(call.requests) = Len(call.responses)
          /\ call.responses[Len(call.responses)] < 100

\* the result is the fetched pages one after the other
ReturnsConcatenation ==
    call.st = "returned" =>
        /\ ~ret.threw
        /\ Len(ret.seats) = 100 * (Len(call.responses) - 1) + call.responses[Len(call.responses)]
        /\ \A k \in DOMAIN ret.seats :
              ret.seats[k] = <<((k - 1) \div 100) + 1, ((k - 1) % 100) + 1>>

\* an error on a page ends the call with that error and no seats
ErrorPropagates ==
    call.st = "rejected" =>
        /\ ret = [fn |-> "fetchAllCopilotSeats", threw |-> TRUE]
        /\ Len(call.requests) = Len(call.responses) + 1

\* C25: seat pagination -- fetchAllCopilotSeats requests pages 1, 2, 3, ... in
\* order with page size 100, stops after the first page that holds fewer
\* than 100 seats and returns the concatenation of the fetched pages in
\* order; an error on a page propagates without a partial result; and the
\* call ends when the API eventually answers with a short page.
C25_SeatPagination ==
    /\ [](SeatsCall => /\ RequestsInOrder
                       /\ StopsAtFirstShortPage
                       /\ ReturnsConcatenation
                       /\ ErrorPropagates)
    /\ <>(call.st \in {"returned", "rejected"})

\* two full pages and a short third page: 201 seats returned
C25_Witness ==
    /\ SeatsCall
    /\ call.st = "returned"
    /\ call.responses = <<100, 100, 1>>
    /\ Len(ret.seats) = 201
    /\ ret.seats[201] = <<3, 1>>

\* an exactly full page followed by an empty page
C25_WitnessEmptyLastPage ==
    /\ SeatsCall
    /\ call.st = "returned"
    /\ call.responses = <<100, 0>>
    /\ Len(ret.seats) = 100

(***************************************************************************)
(* Properties of the two tiers (checked under SpecTiers)                   *)
(***************************************************************************)
CursorClassified == ret.fn = "CursorOperations.categorizeInactiveUsers"

GitHubClassified == ret.fn = "GitHubOperations.categorizeInactiveUsers"

\* a seat's activity counts in a window that starts on cutoffDay
SeatActiveSince(seat, cutoffDay) ==
    seat.last_activity_at # Null /\ seat.last_activity_at[1] >= cutoffDay

SeatUser(seat) ==
    [email |-> IF seat.email = NoEmail THEN seat.login \o "@github.local" ELSE seat.email,
     name |-> seat.login]

NotifyCutoff == call.nowDay - call.notifyAfterDays

RemoveCutoff == call.nowDay - call.removeAfterDays

\* the members inactive in the notify window
InactiveInNotifyWindow ==
    IF CursorClassified
    THEN { m \in Range(call.members) : ~ActiveIn(call.notifyPeriodUsage, m.email) }
    ELSE { SeatUser(seat) : seat \in { x \in Range(call.seats) : ~SeatActiveSince(x, NotifyCutoff) } }

\* every email active in the notify window is active in the remove window
NestedWindows ==
    IF CursorClassified
    THEN \A e \in Emails : ActiveIn(call.notifyPeriodUsage, e) => ActiveIn(call.removePeriodUsage, e)
    ELSE \A seat \in Range(call.seats) :
            SeatActiveSince(seat, NotifyCutoff) => SeatActiveSince(seat, RemoveCutoff)

\* C26: tier partition under nested windows -- if every email active in the
\* notify window is also active in the remove window, toRemove is a subset of
\* the members inactive in the notify window, toNotify and toRemove together
\* are exactly those members, and no email is in both tiers.
C26_TierPartition ==
    ((CursorClassified \/ GitHubClassified) /\ NestedWindows) =>
        /\ Range(ret.usersToRemove) \subseteq InactiveInNotifyWindow
        /\ Range(ret.usersToNotify) \cup Range(ret.usersToRemove) = InactiveInNotifyWindow
        /\ EmailsOf(ret.usersToNotify) \cap EmailsOf(ret.usersToRemove) = {}

\* a seat list with one seat in each tier and thresholds 60 < 90
C26_Witness ==
    /\ GitHubClassified
    /\ NestedWindows
    /\ call.notifyAfterDays = 60 /\ call.removeAfterDays = 90
    /\ Len(ret.usersToNotify) = 1
    /\ Len(ret.usersToRemove) = 1
    /\ ret.usersToNotify # ret.usersToRemove

\* the same for a roster: one member in each tier
C26_WitnessRoster ==
    /\ CursorClassified
    /\ NestedWindows
    /\ Len(ret.usersToNotify) = 1
    /\ Len(ret.usersToRemove) = 1
    /\ ret.usersToNotify # ret.usersToRemove

\* C30: inverted thresholds silence warnings in the seat-based classifier --
\* when removeAfterDays <= notifyAfterDays, GitHubOperations'
\* categorizeInactiveUsers returns an empty usersToNotify for every seat
\* list: every seat inactive before the notify cutoff is in usersToRemove.
C30_InvertedThresholds ==
    (GitHubClassified /\ call.removeAfterDays <= call.notifyAfterDays) =>
        /\ ret.usersToNotify = <<>>
        /\ { SeatUser(seat) : seat \in { x \in Range(call.seats) : ~SeatActiveSince(x, NotifyCutoff) } }
              \subseteq Range(ret.usersToRemove)

\* thresholds 90 and 60 inverted, a seat last active between the two cutoffs
\* and a seat never active: both in usersToRemove, nobody warned
C30_Witness ==
    /\ GitHubClassified
    /\ call.notifyAfterDays = 90 /\ call.removeAfterDays = 60
    /\ Len(call.seats) = 2
    /\ \E k \in DOMAIN call.seats : call.seats[k].last_activity_at = <<125>>
    /\ \E k \in DOMAIN call.seats : call.seats[k].last_activity_at = Null
    /\ ret.usersToNotify = <<>>
    /\ Len(ret.usersToRemove) = 2

(***************************************************************************)
(* Concurrent warnings on one instance (checked under SpecSlack)           *)
(***************************************************************************)
\* C27: no cross-talk between concurrent warnings -- under every interleaving
\* of the lookup and send steps of warning calls that share one cache, each
\* message is posted to the handle resolved for its own email, and the cache
\* maps an email only to the handle resolved for that email.
C27_NoCrossTalk ==
    /\ \A p \in dmPosted : p[1] = SlackIdOf(p[2])
    /\ \A p \in userIdCache : p[2] = SlackIdOf(p[1])
    /\ \A p, q \in userIdCache : p[1] = q[1] => p = q
    /\ \A i \in DOMAIN dm :
         /\ dm[i].userId \in {"", SlackIdOf(dm[i].email)}
         /\ dm[i].st = "post" => dm[i].userId = SlackIdOf(dm[i].email)

\* three calls in flight together (the third looked a@x.io up itself, so it
\* started before the first call's lookup was answered), all delivered
C27_Witness ==
    /\ Len(dm) = 3
    /\ dm[1].email = "a@x.io" /\ dm[1].lookup = "ok" /\ dm[1].result = "true"
    /\ dm[2].email = "b@x.io" /\ dm[2].lookup = "ok" /\ dm[2].result = "true"
    /\ dm[3].email = "a@x.io" /\ dm[3].lookup = "ok" /\ dm[3].result = "true"
    /\ dmPosted = { <<SlackIdOf("a@x.io"), "a@x.io">>, <<SlackIdOf("b@x.io"), "b@x.io">> }
    /\ userIdCache = { <<"a@x.io", SlackIdOf("a@x.io")>>, <<"b@x.io", SlackIdOf("b@x.io")>> }

(***************************************************************************)
(* Failed lookups and the cache (checked under SpecDispatcher)             *)
(***************************************************************************)
\* the step is the channel notification
NotifiesNow == ret = NoRet /\ ret' # NoRet

\* C28: a failed lookup leaves the cache unchanged -- when a lookup raises or
\* returns no user id, no entry is added or altered; an operation that
\* starts for an email the cache does not hold performs a fresh lookup; and
\* every entry the cache gains is the handle of a successful lookup.
C28_FailedLookupLeavesCache ==
    [][ /\ \A i \in DOMAIN dm :
             (dm[i].st = "lookup" /\ dm'[i].lookup \in {"error", "noid"}) =>
                userIdCache' = userIdCache
        /\ NotifiesNow =>
             /\ \A e \in ret'.failed : ~CacheHas(userIdCache', e)
             /\ \A p \in userIdCache : p \in userIdCache'
             /\ \A p \in userIdCache' \ userIdCache :
                  /\ p[1] \in Range(ret'.channel.lookups) \ ret'.failed
                  /\ p[2] = SlackIdOf(p[1])
             /\ enabled =>
                  \A e \in ret'.emails :
                     ~CacheHas(userIdCache, e) => e \in Range(ret'.channel.lookups)
        /\ (StartsWarning /\ enabled) =>
             LET t == dm'[Len(dm')]
             IN ~CacheHas(userIdCache, t.email) => (t.st = "lookup" /\ t.lookup = "none")
        /\ (~NotifiesNow /\ userIdCache' # userIdCache) =>
             \E i \in DOMAIN dm :
                /\ dm[i].st = "lookup"
                /\ dm'[i].lookup = "ok"
                /\ userIdCache' = userIdCache \cup {<<dm[i].email, SlackIdOf(dm[i].email)>>}
      ]_vars

\* a@x.io: the first warning's lookup raised, the second warning looked it up
\* again and got no id, the notification looked it up a third time and
\* failed; the cache holds nothing
C28_Witness ==
    /\ Len(dm) = 2
    /\ dm[1].email = "a@x.io" /\ dm[1].lookup = "error" /\ dm[1].result = "false"
    /\ dm[2].email = "a@x.io" /\ dm[2].lookup = "noid" /\ dm[2].result = "false"
    /\ Notified
    /\ "a@x.io" \in ret.failed
    /\ ret.cacheAtCall = {}
    /\ userIdCache = {}

(***************************************************************************)
(* The early returns of the handler (checked under Spec)                   *)
(***************************************************************************)
\* the roster members an enabled vendor yielded; a failed vendor yields none
YieldedMembers(v) ==
    IF Enabled(v) /\ vendorStatus[v] = "ok" THEN vendorResult[v].members ELSE 0

VendorsSettled == pc \notin {"fetchSecrets", "cursor", "github"}

NothingToProcess ==
    \/ ~ENABLE_CURSOR /\ ~ENABLE_GITHUB_COPILOT
    \/ YieldedMembers("cursor") + YieldedMembers("github") = 0

\* C29: early exit without notifications -- if no vendor is enabled, or the
\* enabled vendors together yield zero roster members (empty rosters or all
\* vendors failed), the run ends at the early return, without any lookup,
\* warning DM or removal report.
C29_EarlyExit ==
    (secretsOk /\ VendorsSettled /\ NothingToProcess) =>
        /\ dm = <<>>
        /\ dmPosted = {}
        /\ userIdCache = {}
        /\ reportCalls = 0
        /\ reportStatus = "none"
        /\ pc \in {"check", "done"}
        /\ pc = "done" => summary \in {"noServices", "noMembers"}

\* both vendors enabled, Cursor failed and GitHub returned no seat
C29_Witness ==
    /\ pc = "done"
    /\ summary = "noMembers"
    /\ ENABLE_CURSOR /\ ENABLE_GITHUB_COPILOT
    /\ vendorStatus["cursor"] = "failed"
    /\ vendorStatus["github"] = "ok"
    /\ vendorResult["github"].members = 0
    /\ dm = <<>>
    /\ reportCalls = 0

\* no vendor enabled
C29_WitnessNoServices ==
    /\ pc = "done"
    /\ summary = "noServices"
    /\ ~ENABLE_CURSOR /\ ~ENABLE_GITHUB_COPILOT
    /\ dm = <<>>
    /\ reportCalls = 0

====
